---- MODULE Spec2Model ----
(***************************************************************************)
(* Model of the compass-service journey sequencer (CompassOrchestrator),   *)
(* its decision engine and its confidence scorer.                          *)
(*                                                                         *)
(* Numbers.  The Python code computes confidences as floats.  The model    *)
(* keeps every confidence as an integer number of thousandths (85.0 is     *)
(* 85000) and rounds each division to the nearest thousandth; signal       *)
(* confidences, strengths and enthusiasms are integers.                    *)
(*                                                                         *)
(* Specifications.                                                         *)
(*   Spec          turn operations as sequences of I/O steps (store read,  *)
(*                 collaborator call, store write, event publication);     *)
(*                 a call may arrive while another is in flight.           *)
(*   SeqSpec       the same steps, one call at a time.                     *)
(*   DecisionSpec  make_decision applied to inputs drawn from bounded sets.*)
(***************************************************************************)
EXTENDS Integers, Sequences, FiniteSets, TLC

VARIABLES
    store,      \* redis: the stored JourneyState of each journey id that has one
    calls,      \* call slot -> the request in flight in it (or idle)
    nextQid,    \* source of fresh question ids (uuid4)
    hist,       \* journey id -> what the finished calls on it did
    probe       \* input and output of a pure function under check

vars == <<store, calls, nextQid, hist, probe>>

(***************************************************************************)
(* Bounds of the model.                                                    *)
(***************************************************************************)
MaxQuestions == 19        \* questions generated per journey when calls come one at a time
MaxConcurrentQuestions == 5  \* questions generated per journey when calls may overlap
MaxResponses == 2         \* answers accepted per journey when calls come one at a time
MaxConcurrentResponses == 1  \* answers accepted per journey when calls may overlap
MaxAnswerId == 1          \* clients answer question ids 1..MaxAnswerId
MaxOverlapQuestions == 1  \* a second call may start while the journey has at most this many questions
MaxRouteQuestions == 6    \* questions generated per journey when update-profile requests come too
MaxUpdateQuestions == 1   \* an update-profile request comes while the journey has at most this many questions
MaxOverlaps == 1          \* calls per journey that start while another call is in flight
MinLateQuestions == 14    \* LateSpec: questions already asked at the beginning; calls may overlap from there
MaxLateQuestions == 18    \* LateSpec: questions generated per journey
MaxLateResponses == 1     \* LateSpec: answers accepted per journey
MaxProbeQuestions == 25   \* DecisionSpec: questions_asked in 0..MaxProbeQuestions
MaxProbeClar == 4         \* DecisionSpec: clarifications_used in 0..MaxProbeClar
MaxProbeResponses == 3    \* DecisionSpec: length of the answer history

(***************************************************************************)
(* Fixed point: thousandths.                                               *)
(***************************************************************************)
Milli(x) == x * 1000

Min(a, b) == IF a <= b THEN a ELSE b
Max(a, b) == IF a >= b THEN a ELSE b

RECURSIVE SumSeq(_)
SumSeq(s) == IF s = <<>> THEN 0 ELSE Head(s) + SumSeq(Tail(s))

(***************************************************************************)
(* compass_schemas.py                                                      *)
(***************************************************************************)
IN_PROGRESS == "in_progress"
COMPLETED == "completed"
ABANDONED == "abandoned"

CONTINUE == "continue"
CLARIFY == "clarify"
COMPLETE == "complete"
SAVE_PARTIAL == "save_partial"
DecisionType == {CONTINUE, CLARIFY, COMPLETE, SAVE_PARTIAL}

None == "None"

(***************************************************************************)
(* Signal extractions (ResponseAnalysis).  riasec_signals is a function    *)
(* from the dimensions present to [score, confidence]; motivators and      *)
(* interests are sequences of records.                                     *)
(***************************************************************************)
dimensions == <<"realistic", "investigative", "artistic", "social", "enterprising", "conventional">>
dimension_labels == <<"Realistic", "Investigative", "Artistic", "Social", "Enterprising", "Conventional">>

\* a / b rounded to the nearest thousandth step, for a >= 0 and b > 0
Div(a, b) == (2 * a + b) \div (2 * b)

RECURSIVE SumOver(_, _)
SumOver(f, S) ==
    IF S = {} THEN 0
    ELSE LET x == CHOOSE y \in S : TRUE IN f[x] + SumOver(f, S \ {x})

RECURSIVE ISqrtIn(_, _, _)
ISqrtIn(x, lo, hi) ==
    IF lo >= hi THEN lo
    ELSE LET mid == (lo + hi + 1) \div 2 IN
         IF mid * mid <= x THEN ISqrtIn(x, mid, hi) ELSE ISqrtIn(x, lo, mid - 1)
ISqrt(x) == ISqrtIn(x, 0, 4000)

RECURSIVE Flatten(_)
Flatten(ss) == IF ss = <<>> THEN <<>> ELSE Head(ss) \o Flatten(Tail(ss))

all_motivators(analyses) == Flatten([i \in 1..Len(analyses) |-> analyses[i].motivators])
all_interests(analyses) == Flatten([i \in 1..Len(analyses) |-> analyses[i].interests])

(***************************************************************************)
(* confidence_scorer.py: ConfidenceScorerService                           *)
(***************************************************************************)
min_signals_for_confidence == 3
skip_penalty == 10
total_possible_motivators == 12

\* Faulty variant of riasec_dimension_confidence: no bonus for the number of
\* signals.
riasec_dimension_confidence_plain(analyses, dimension) ==
    LET n == Len(analyses)
        idx == {i \in 1..n : dimension \in DOMAIN analyses[i].riasec_signals}
        cnt == Cardinality(idx)
        w == [i \in idx |-> 2 * n + (i - 1)]
        sw == [i \in idx |-> analyses[i].riasec_signals[dimension].confidence * w[i]]
        confidence == Min(Div(Milli(SumOver(sw, idx)), SumOver(w, idx)), Milli(100))
    IN IF cnt = 0 THEN 0
       ELSE IF cnt < 3 THEN Div(confidence * cnt, 3)
       ELSE confidence

\* _calculate_riasec_confidence, one dimension.  The weight 1.0 + (i/n)*0.5 of
\* the signal at Python index i is (2n + i) / 2n; the common 2n cancels in
\* the weighted average.
riasec_dimension_confidence(analyses, dimension) ==
    LET n == Len(analyses)
        idx == {i \in 1..n : dimension \in DOMAIN analyses[i].riasec_signals}
        cnt == Cardinality(idx)
        w == [i \in idx |-> 2 * n + (i - 1)]
        sw == [i \in idx |-> analyses[i].riasec_signals[dimension].confidence * w[i]]
        weighted_avg == Div(Milli(SumOver(sw, idx)), SumOver(w, idx))
        signal_count_bonus == Milli(Min(cnt * 5, 20))
        confidence == Min(weighted_avg + signal_count_bonus, Milli(100))
    IN IF cnt = 0 THEN 0
       ELSE IF cnt < min_signals_for_confidence
       THEN Div(confidence * cnt, min_signals_for_confidence)
       ELSE confidence

calculate_riasec_confidence(analyses) ==
    [d \in 1..6 |-> riasec_dimension_confidence(analyses, dimensions[d])]

\* _calculate_motivator_confidence
calculate_motivator_confidence(analyses) ==
    LET ms == all_motivators(analyses)
        types == {ms[i].type : i \in 1..Len(ms)}
        coverage == Div(Milli(100) * Cardinality(types), total_possible_motivators)
        occ(t) == {i \in 1..Len(ms) : ms[i].type = t}
        repeated == {t \in types : Cardinality(occ(t)) > 1}
        \* population standard deviation of the strengths of type t
        std_dev(t) ==
            LET k == Cardinality(occ(t))
                s1 == SumOver([i \in occ(t) |-> ms[i].strength], occ(t))
                s2 == SumOver([i \in occ(t) |-> ms[i].strength * ms[i].strength], occ(t))
            IN Div(ISqrt((k * s2 - s1 * s1) * 10000) * 10, k)
        consistency == [t \in repeated |-> Max(0, Milli(100) - std_dev(t) * 20)]
        avg_consistency ==
            IF repeated = {} THEN Milli(50)
            ELSE Div(SumOver(consistency, repeated), Cardinality(repeated))
        confidence == Div(coverage * 6 + avg_consistency * 4, 10)
        scaled == IF Cardinality(types) < 5
                  THEN Div(confidence * Cardinality(types), 5) ELSE confidence
    IN Min(scaled, Milli(100))

\* _calculate_interest_confidence
calculate_interest_confidence(analyses) ==
    LET is == all_interests(analyses)
        total_interests == Len(is)
        cats == {is[i].category : i \in 1..Len(is)}
        occ(c) == {i \in 1..Len(is) : is[i].category = c}
        \* mean(enthusiasm) * 10 * min(count / 3, 1.0)
        depth == [c \in cats |->
                    LET k == Cardinality(occ(c))
                        s == SumOver([i \in occ(c) |-> is[i].enthusiasm], occ(c))
                    IN IF k >= 3 THEN Div(Milli(s * 10), k) ELSE Div(Milli(s * 10), 3)]
        avg_depth == Div(SumOver(depth, cats), Cardinality(cats))
        diversity_score == Min(Div(Milli(100) * Cardinality(cats), 5), Milli(100))
        confidence == Div(diversity_score * 4 + avg_depth * 6, 10)
        scaled == IF total_interests < 5
                  THEN Div(confidence * total_interests, 5) ELSE confidence
    IN IF total_interests = 0 THEN 0 ELSE Min(scaled, Milli(100))

\* _calculate_skip_adjustment: -(skip_rate * skip_penalty * total_count), a
\* value <= 0.
calculate_skip_adjustment(responses) ==
    LET skipped_count == Cardinality({i \in 1..Len(responses) : responses[i].skipped})
        total_count == Len(responses)
    IN IF total_count = 0 THEN 0
       ELSE 0 - Div(Milli(skipped_count * skip_penalty * total_count), total_count)

\* Faulty variant of calculate_overall_confidence: no lower clamp.
calculate_overall_confidence_unclamped(riasec, motivator, interest, skip_adjustment) ==
    Min(Div(Div(SumSeq(riasec), 6) * 5 + motivator * 3 + interest * 2, 10) + skip_adjustment,
        Milli(100))

\* _calculate_overall_confidence
calculate_overall_confidence(riasec, motivator, interest, skip_adjustment) ==
    LET riasec_avg == Div(SumSeq(riasec), 6)
        base_confidence == Div(riasec_avg * 5 + motivator * 3 + interest * 2, 10)
        adjusted_confidence == Max(0, base_confidence + skip_adjustment)
    IN Min(adjusted_confidence, Milli(100))

\* Faulty variant of is_ready_to_complete: ready from the first
\* clarification question on.
is_ready_to_complete_early(overall_confidence, questions_asked) ==
    \/ questions_asked >= 12 /\ overall_confidence >= Milli(85)
    \/ questions_asked >= 15 /\ overall_confidence >= Milli(75)
    \/ questions_asked >= 16

\* _is_ready_to_complete
is_ready_to_complete(overall_confidence, questions_asked) ==
    \/ questions_asked >= 12 /\ overall_confidence >= Milli(85)
    \/ questions_asked >= 15 /\ overall_confidence >= Milli(75)
    \/ questions_asked >= 18

\* _identify_gaps: the labels of the areas below their thresholds, in the
\* order the source appends them.
identify_gaps(riasec, motivator_confidence, interest_confidence) ==
    LET low == SelectSeq([d \in 1..6 |-> d], LAMBDA d : riasec[d] < Milli(60))
    IN [k \in 1..Len(low) |-> dimension_labels[low[k]]]
       \o (IF motivator_confidence < Milli(70) THEN <<"Career motivators">> ELSE <<>>)
       \o (IF interest_confidence < Milli(60) THEN <<"Personal interests">> ELSE <<>>)

\* calculate_confidence
calculate_confidence(analyses, responses, current_question_number) ==
    LET riasec_confidence == calculate_riasec_confidence(analyses)
        motivator_confidence == calculate_motivator_confidence(analyses)
        interest_confidence == calculate_interest_confidence(analyses)
        skip_adjustment == calculate_skip_adjustment(responses)
        overall_confidence == calculate_overall_confidence(
            riasec_confidence, motivator_confidence, interest_confidence, skip_adjustment)
    IN [riasec_confidence |-> riasec_confidence,
        motivator_confidence |-> motivator_confidence,
        interest_confidence |-> interest_confidence,
        overall_confidence |-> overall_confidence,
        ready_to_complete |-> is_ready_to_complete(overall_confidence, current_question_number),
        gaps_remaining |-> identify_gaps(riasec_confidence, motivator_confidence,
                                         interest_confidence)]

(***************************************************************************)
(* Collaborator outputs.  The question generator, the free-text extractor  *)
(* and the insight generator are external (GPT-4); the model draws their   *)
(* answers from these sets, or lets the call raise.                        *)
(***************************************************************************)
motivator_types == <<"Money & Compensation", "Growth & Advancement", "Purpose & Impact",
                     "Autonomy & Independence", "Work-Life Balance", "Recognition & Status",
                     "Creativity & Innovation", "Stability & Security",
                     "Learning & Development", "Team & Collaboration",
                     "Challenge & Competition", "Leadership & Influence">>

\* Option metadata as the generation prompt shows it; weights in tenths.
OptionA == [id |-> "A",
            motivators |-> <<[type |-> "autonomy", weight |-> 8], [type |-> "money", weight |-> 7]>>,
            interests |-> <<[area |-> "technology", weight |-> 8],
                            [area |-> "entrepreneurship", weight |-> 9]>>]
OptionB == [id |-> "B",
            motivators |-> <<[type |-> "growth", weight |-> 8], [type |-> "purpose", weight |-> 7]>>,
            interests |-> <<[area |-> "research", weight |-> 9],
                            [area |-> "sustainability", weight |-> 7]>>]

\* What the generator may return as the options of question number n: a
\* question with two options, or, among the first MaxAnswerId questions, one
\* without options.
GeneratedOptions(n) ==
    {<<OptionA, OptionB>>} \cup (IF n <= MaxAnswerId THEN {<<>>} ELSE {})

\* Raw JSON results of the free-text extractor.
StrongResult ==
    [riasec |-> [d \in {dimensions[k] : k \in 1..6} |-> [score |-> 10, confidence |-> 100]],
     motivators |-> [k \in 1..12 |->
                       [type |-> motivator_types[k], strength |-> 10, evidence |-> TRUE]],
     interests |-> [k \in 1..5 |->
                      [category |-> <<"technology", "arts", "business", "science", "education">>[k],
                       specific |-> "detail", enthusiasm |-> 10]],
     response_quality |-> "high"]
WeakResult ==
    [riasec |-> [d \in {"realistic", "artistic"} |->
                   IF d = "realistic" THEN [score |-> 5, confidence |-> 60]
                   ELSE [score |-> 0, confidence |-> 50]],
     motivators |-> <<[type |-> "Money & Compensation", strength |-> 5, evidence |-> TRUE]>>,
     interests |-> <<[category |-> "technology", specific |-> "detail", enthusiasm |-> 4]>>,
     response_quality |-> "medium"]
ExtractorResults == {StrongResult, WeakResult}

\* What clients send as response_text.
ResponseTexts == {"A", "free text"}

(***************************************************************************)
(* response_analyzer.py: ResponseAnalyzerService                           *)
(***************************************************************************)
\* _create_skipped_analysis
create_skipped_analysis ==
    [riasec_signals |-> <<>>, motivators |-> <<>>, interests |-> <<>>,
     response_quality |-> "low"]

\* _calculate_motivator_confidence (of one extracted motivator)
motivator_signal_confidence(m) ==
    IF m.strength >= 8 /\ m.evidence THEN 90
    ELSE IF m.strength >= 6 /\ m.evidence THEN 75
    ELSE IF m.strength >= 4 /\ m.evidence THEN 60
    ELSE 40

\* _process_analysis_result: only dimensions with score > 0 are kept.
process_analysis_result(result) ==
    [riasec_signals |-> [d \in {x \in DOMAIN result.riasec : result.riasec[x].score > 0} |->
                           result.riasec[d]],
     motivators |-> [k \in 1..Len(result.motivators) |->
                       [type |-> result.motivators[k].type,
                        strength |-> result.motivators[k].strength,
                        confidence |-> motivator_signal_confidence(result.motivators[k])]],
     interests |-> result.interests,
     response_quality |-> result.response_quality]

\* response_text.strip().upper(), on the texts clients send here
strip_upper(text) ==
    CASE text = "a" -> "A" [] OTHER -> text

\* ord(option_letter) - ord('A')
option_index(letter) ==
    CASE letter = "A" -> 0 [] letter = "B" -> 1 [] letter = "C" -> 2 [] letter = "D" -> 3

\* Faulty variant of analyze_mcq_with_metadata: the selected option carries
\* a RIASEC weight.
analyze_mcq_with_metadata_weighted(response, question) ==
    LET i == option_index(strip_upper(response.response_text)) IN
    IF i < 0 \/ i >= Len(question.options) THEN create_skipped_analysis
    ELSE LET selected_option == question.options[i + 1] IN
         [riasec_signals |-> [d \in {"realistic"} |-> [score |-> 8, confidence |-> 90]],
          motivators |-> [k \in 1..Len(selected_option.motivators) |->
                            [type |-> selected_option.motivators[k].type,
                             strength |-> selected_option.motivators[k].weight,
                             confidence |-> selected_option.motivators[k].weight * 10]],
          interests |-> [k \in 1..Len(selected_option.interests) |->
                           [category |-> selected_option.interests[k].area,
                            specific |-> "General interest",
                            enthusiasm |-> selected_option.interests[k].weight]],
          response_quality |-> "high"]

\* _analyze_mcq_with_metadata: riasec_weights of every option is empty
\* (question_generator.py sets it so), hence no RIASEC signal and quality
\* "medium".
analyze_mcq_with_metadata(response, question) ==
    LET i == option_index(strip_upper(response.response_text)) IN
    IF i < 0 \/ i >= Len(question.options) THEN create_skipped_analysis
    ELSE LET selected_option == question.options[i + 1] IN
         [riasec_signals |-> <<>>,
          motivators |-> [k \in 1..Len(selected_option.motivators) |->
                            [type |-> selected_option.motivators[k].type,
                             strength |-> selected_option.motivators[k].weight,
                             confidence |-> selected_option.motivators[k].weight * 10]],
          interests |-> [k \in 1..Len(selected_option.interests) |->
                           [category |-> selected_option.interests[k].area,
                            specific |-> "General interest",
                            enthusiasm |-> selected_option.interests[k].weight]],
          response_quality |-> "medium"]

is_mcq(response) == strip_upper(response.response_text) \in {"A", "B", "C", "D"}

\* analyze_response needs the extractor exactly when the answer is not
\* skipped and is not an option letter on a question that has options.
needs_extractor(response, question) ==
    /\ ~response.skipped
    /\ ~(is_mcq(response) /\ Len(question.options) > 0)

\* analyze_response, given the extractor's result for the free-text path.
analyze_response(response, question, extracted) ==
    IF response.skipped THEN create_skipped_analysis
    ELSE IF is_mcq(response) /\ Len(question.options) > 0
    THEN analyze_mcq_with_metadata(response, question)
    ELSE process_analysis_result(extracted)

(***************************************************************************)
(* compass_orchestrator.py: _update_current_profile                        *)
(***************************************************************************)
\* sorted(xs, key, reverse=True) as the order of the indices of xs: stable,
\* descending by keys[i].
SortedDesc(keys) ==
    LET n == Len(keys)
        before(j, i) == keys[j] > keys[i] \/ (keys[j] = keys[i] /\ j < i)
        rank == [i \in 1..n |-> Cardinality({j \in 1..n : before(j, i)}) + 1]
    IN [p \in 1..n |-> CHOOSE i \in 1..n : rank[i] = p]

\* The indices, in the given order, that are the first of their group.
FirstPerGroup(order, groups) ==
    LET first == {p \in 1..Len(order) :
                    \A q \in 1..(p - 1) : groups[order[q]] # groups[order[p]]}
    IN [k \in 1..Cardinality(first) |->
          order[CHOOSE p \in first : Cardinality({q \in first : q < p}) = k - 1]]

Prefix(xs, n) == SubSeq(xs, 1, Min(n, Len(xs)))

\* Faulty variant of TopPerGroup: the cap is not applied.
TopPerGroup_uncapped(xs, keys, groups, n) ==
    LET kept == FirstPerGroup(SortedDesc(keys), groups)
    IN [k \in 1..Len(kept) |-> xs[kept[k]]]

\* Sort by key descending, keep the first of each group, cap to n.
TopPerGroup(xs, keys, groups, n) ==
    LET kept == Prefix(FirstPerGroup(SortedDesc(keys), groups), n)
    IN [k \in 1..Len(kept) |-> xs[kept[k]]]

\* Faulty variant of update_current_profile: the new lists are appended to
\* the lists already stored.
update_current_profile_merging(journey_state) ==
    LET ms == all_motivators(journey_state.analyses)
        is == all_interests(journey_state.analyses)
    IN [journey_state EXCEPT
          !.identified_motivators =
              @ \o TopPerGroup(ms, [k \in 1..Len(ms) |-> ms[k].strength],
                               [k \in 1..Len(ms) |-> ms[k].type], 12),
          !.identified_interests =
              @ \o TopPerGroup(is, [k \in 1..Len(is) |-> is[k].enthusiasm],
                               [k \in 1..Len(is) |-> is[k].category], 20)]

update_current_profile(journey_state) ==
    LET ms == all_motivators(journey_state.analyses)
        is == all_interests(journey_state.analyses)
    IN [journey_state EXCEPT
          !.identified_motivators =
              TopPerGroup(ms, [k \in 1..Len(ms) |-> ms[k].strength],
                          [k \in 1..Len(ms) |-> ms[k].type], 12),
          !.identified_interests =
              TopPerGroup(is, [k \in 1..Len(is) |-> is[k].enthusiasm],
                          [k \in 1..Len(is) |-> is[k].category], 20)]

(***************************************************************************)
(* profile_synthesizer.py: synthesize_profile                              *)
(***************************************************************************)
\* np.average raises ZeroDivisionError when the weights of a dimension sum to
\* zero: some dimension has signals and all of them have confidence 0.
final_riasec_raises(analyses) ==
    \E d \in 1..6 :
        LET idx == {i \in 1..Len(analyses) : dimensions[d] \in DOMAIN analyses[i].riasec_signals}
        IN idx # {} /\ \A i \in idx : analyses[i].riasec_signals[dimensions[d]].confidence = 0

\* _calculate_final_riasec lines 59-81, one dimension: the average of the
\* scores weighted by recency * confidence/100 * quality, times 10, at most
\* 100.  The weight of the signal at Python index i is
\* ((2n + i) / 2n) * (confidence / 100) * (3/2 or 1); the common 2n * 100 * 2
\* cancels.
final_riasec_score(analyses, dimension) ==
    LET n == Len(analyses)
        idx == {i \in 1..n : dimension \in DOMAIN analyses[i].riasec_signals}
        w == [i \in idx |-> (2 * n + (i - 1))
                              * analyses[i].riasec_signals[dimension].confidence
                              * (IF analyses[i].response_quality = "high" THEN 3 ELSE 2)]
        sw == [i \in idx |-> analyses[i].riasec_signals[dimension].score * w[i]]
    IN IF idx = {} THEN 0
       ELSE Min(Div(Milli(10 * SumOver(sw, idx)), SumOver(w, idx)), Milli(100))

code_map == <<"R", "I", "A", "S", "E", "C">>

\* Faulty variant of riasec_code: the three lowest scores.
riasec_code_lowest(final_scores) ==
    LET sorted_dims == SortedDesc([d \in 1..6 |-> 0 - final_scores[d]])
    IN [k \in 1..3 |-> code_map[sorted_dims[k]]]

\* lines 94-105: sorted(final_scores.items(), by score, reverse=True)[:3],
\* the items being in the order of the dimensions list
riasec_code(final_scores) ==
    LET sorted_dims == SortedDesc(final_scores)
    IN [k \in 1..3 |-> code_map[sorted_dims[k]]]

\* _calculate_final_riasec, when np.average does not raise
calculate_final_riasec(analyses) ==
    LET final_scores == [d \in 1..6 |-> final_riasec_score(analyses, dimensions[d])]
    IN [riasec_score |-> final_scores, riasec_code |-> riasec_code(final_scores)]

\* xs[a:b] of Python
Slice(xs, a, b) == SubSeq(xs, Min(a, Len(xs)) + 1, Min(b, Len(xs)))

\* The dict of lists the two organisers build and average: one entry per
\* key in the order the keys first appear, with the sum and the number of
\* its values.
grouped(keys, values, firsts) ==
    [t \in 1..Len(firsts) |->
        LET occ == {k \in 1..Len(keys) : keys[k] = keys[firsts[t]]}
        IN [key |-> keys[firsts[t]], sum |-> SumOver(values, occ), count |-> Cardinality(occ)]]

\* The place of each entry when sorted by average, descending; sorted is
\* stable.
average_rank(entries) ==
    [i \in 1..Len(entries) |->
        Cardinality({j \in 1..Len(entries) :
            \/ entries[j].sum * entries[i].count > entries[i].sum * entries[j].count
            \/ /\ entries[j].sum * entries[i].count = entries[i].sum * entries[j].count
               /\ j < i}) + 1]

placed(entries, rank) ==
    [q \in 1..Len(entries) |-> entries[CHOOSE i \in 1..Len(entries) : rank[i] = q]]

sorted_entries(entries) == placed(entries, average_rank(entries))

sorted_averages(keys, values) ==
    sorted_entries(grouped(keys, values, FirstPerGroup([k \in 1..Len(keys) |-> k], keys)))

\* _organize_motivators lines 107-127: the types by average of
\* strength * confidence / 100, descending (sums in hundredths)
sorted_motivators(analyses) ==
    LET ms == all_motivators(analyses)
    IN sorted_averages([k \in 1..Len(ms) |-> ms[k].type],
                       [k \in 1..Len(ms) |-> ms[k].strength * ms[k].confidence])

\* _organize_motivators lines 129-140
organize_motivators(analyses) ==
    LET sorted == sorted_motivators(analyses)
        names == [q \in 1..Len(sorted) |-> sorted[q].key]
        total == Len(sorted)
        top_threshold == Max(3, total \div 3)
        moderate_threshold == Max(6, (total * 2) \div 3)
    IN [top |-> Slice(names, 0, top_threshold),
        moderate |-> Slice(names, top_threshold, moderate_threshold),
        low |-> Slice(names, moderate_threshold, total)]

\* _cluster_interests lines 142-158: the interests, keyed by category and
\* specific, by average enthusiasm, descending
sorted_interests(analyses) ==
    LET is == all_interests(analyses)
    IN sorted_averages([k \in 1..Len(is) |-> <<is[k].category, is[k].specific>>],
                       [k \in 1..Len(is) |-> is[k].enthusiasm])

\* lines 169-175: the loop over the sorted interests
RECURSIVE assign_clusters(_, _, _, _)
assign_clusters(sorted, primary, secondary, emerging) ==
    IF sorted = <<>>
    THEN [primary |-> primary, secondary |-> secondary, emerging |-> emerging]
    ELSE LET interest == Head(sorted) IN
         IF interest.sum >= 8 * interest.count \/ Len(primary) < 3
         THEN assign_clusters(Tail(sorted), Append(primary, interest.key), secondary, emerging)
         ELSE IF interest.sum >= 6 * interest.count \/ Len(secondary) < 3
         THEN assign_clusters(Tail(sorted), primary, Append(secondary, interest.key), emerging)
         ELSE assign_clusters(Tail(sorted), primary, secondary, Append(emerging, interest.key))

\* Faulty variant of cluster_interests: the primary list is not capped.
cluster_interests_uncapped(analyses) ==
    LET all == assign_clusters(sorted_interests(analyses), <<>>, <<>>, <<>>)
    IN [primary |-> all.primary,
        secondary |-> Slice(all.secondary, 0, 5),
        emerging |-> Slice(all.emerging, 0, 3)]

\* _cluster_interests lines 160-182
cluster_interests(analyses) ==
    LET all == assign_clusters(sorted_interests(analyses), <<>>, <<>>, <<>>)
    IN [primary |-> Slice(all.primary, 0, 5),
        secondary |-> Slice(all.secondary, 0, 5),
        emerging |-> Slice(all.emerging, 0, 3)]

\* The CompletedProfile: the fields the sequencer's contract speaks of.
synthesize_profile(journey_state) ==
    [questions_answered |->
        Cardinality({i \in 1..Len(journey_state.responses) : ~journey_state.responses[i].skipped}),
     confidence_at_completion |->
        IF journey_state.current_confidence # <<>>
        THEN journey_state.current_confidence[1].overall_confidence ELSE 0]

(***************************************************************************)
(* decision_engine.py: DecisionEngineService                               *)
(***************************************************************************)
min_questions == 12
standard_questions == 15
max_clarifications == 3
high_confidence_threshold == Milli(85)
acceptable_confidence_threshold == Milli(75)

\* _calculate_skip_rate: the fraction skipped / len(responses) as <<num, den>>,
\* 0/1 when there are no responses.
calculate_skip_rate(responses) ==
    IF Len(responses) = 0 THEN <<0, 1>>
    ELSE <<Cardinality({i \in 1..Len(responses) : responses[i].skipped}), Len(responses)>>

\* _identify_next_focus: the topic label of the first gap.
identify_next_focus(gaps) ==
    IF Len(gaps) = 0 THEN "Exploring general career preferences"
    ELSE LET g == gaps[1] IN
         CASE g = "Realistic" -> "Understanding hands-on and practical interests"
           [] g = "Investigative" -> "Exploring analytical and research interests"
           [] g = "Artistic" -> "Discovering creative and expressive preferences"
           [] g = "Social" -> "Understanding interpersonal and helping motivations"
           [] g = "Enterprising" -> "Exploring leadership and business interests"
           [] g = "Conventional" -> "Understanding organizational and structured work preferences"
           [] g = "Career motivators" -> "Identifying key career drivers and values"
           [] g = "Personal interests" -> "Discovering specific areas of enthusiasm"
           [] OTHER -> g

\* Faulty variant of determine_decision: the early-completion test uses > for >=.
determine_decision_strict(questions_asked, clarifications_used, overall_confidence, gaps) ==
    IF questions_asked >= min_questions /\ overall_confidence > high_confidence_threshold
    THEN [decision |-> COMPLETE, next_focus |-> None]
    ELSE IF questions_asked < standard_questions
    THEN [decision |-> CONTINUE, next_focus |-> identify_next_focus(gaps)]
    ELSE [decision |-> COMPLETE, next_focus |-> None]

\* Faulty variant of determine_decision: no branch for an exhausted
\* clarification budget and no fallback, so the function falls off its end.
determine_decision_partial(questions_asked, clarifications_used, overall_confidence, gaps) ==
    IF questions_asked >= min_questions /\ overall_confidence >= high_confidence_threshold
    THEN [decision |-> COMPLETE, next_focus |-> None]
    ELSE IF questions_asked < standard_questions
    THEN [decision |-> CONTINUE, next_focus |-> identify_next_focus(gaps)]
    ELSE IF overall_confidence >= acceptable_confidence_threshold
    THEN [decision |-> COMPLETE, next_focus |-> None]
    ELSE IF clarifications_used < max_clarifications
    THEN [decision |-> CLARIFY, next_focus |-> "Clarifying"]
    ELSE [decision |-> None, next_focus |-> None]

\* Faulty variant of determine_decision: past the standard count the decision
\* is always Complete.
determine_decision_budget(questions_asked, clarifications_used, overall_confidence, gaps) ==
    IF questions_asked >= min_questions /\ overall_confidence >= high_confidence_threshold
    THEN [decision |-> COMPLETE, next_focus |-> None]
    ELSE IF questions_asked < standard_questions
    THEN [decision |-> CONTINUE, next_focus |-> identify_next_focus(gaps)]
    ELSE IF questions_asked = standard_questions
              /\ overall_confidence < acceptable_confidence_threshold
              /\ clarifications_used < max_clarifications
    THEN [decision |-> CLARIFY, next_focus |-> "Clarifying"]
    ELSE [decision |-> COMPLETE, next_focus |-> None]

\* _determine_decision: the if-chain of the source, branch by branch.
determine_decision(questions_asked, clarifications_used, overall_confidence, gaps) ==
    IF questions_asked >= min_questions /\ overall_confidence >= high_confidence_threshold
    THEN [decision |-> COMPLETE, next_focus |-> None]
    ELSE IF questions_asked < standard_questions
    THEN IF overall_confidence < high_confidence_threshold
         THEN [decision |-> CONTINUE, next_focus |-> identify_next_focus(gaps)]
         ELSE [decision |-> CONTINUE,
               next_focus |-> "Confirming strong signals and exploring edge cases"]
    ELSE IF questions_asked = standard_questions
    THEN IF overall_confidence >= acceptable_confidence_threshold
         THEN [decision |-> COMPLETE, next_focus |-> None]
         ELSE IF clarifications_used < max_clarifications
         THEN [decision |-> CLARIFY,
               next_focus |-> IF Len(gaps) > 0 THEN "Clarifying: gaps"
                              ELSE "Clarifying: lowest confidence areas"]
         ELSE [decision |-> COMPLETE, next_focus |-> None]
    ELSE IF questions_asked > standard_questions
    THEN IF clarifications_used >= max_clarifications
         THEN [decision |-> COMPLETE, next_focus |-> None]
         ELSE IF overall_confidence >= acceptable_confidence_threshold
         THEN [decision |-> COMPLETE, next_focus |-> None]
         ELSE IF max_clarifications - clarifications_used > 0
         THEN [decision |-> CLARIFY,
               next_focus |-> IF Len(gaps) > 0 THEN "Focusing on: first gap"
                              ELSE "Focusing on: general clarity"]
         ELSE [decision |-> COMPLETE, next_focus |-> None]
    ELSE [decision |-> COMPLETE, next_focus |-> None]

\* make_decision: the skip-rate rule, then _determine_decision.
make_decision(questions_asked, clarifications_used, responses, confidence_score) ==
    LET skip_rate == calculate_skip_rate(responses) IN
    IF 2 * skip_rate[1] > skip_rate[2] /\ questions_asked >= 5
    THEN [decision |-> SAVE_PARTIAL, next_focus |-> None]
    ELSE determine_decision(questions_asked, clarifications_used,
                            confidence_score.overall_confidence,
                            confidence_score.gaps_remaining)

(***************************************************************************)
(* State of the sequencer.  An Optional value is a sequence of length 0    *)
(* or 1.  The store is a function whose domain is the set of journey ids   *)
(* that have an entry.                                                     *)
(***************************************************************************)
JourneyIds == {"j1"}
Calls == {1, 2}

\* Faulty variant of NewJourney: a clarification is counted before any
\* question is asked.
NewJourney_clarified ==
    [status |-> IN_PROGRESS,
     current_question_number |-> 0,
     questions_asked |-> <<>>,
     responses |-> <<>>,
     analyses |-> <<>>,
     current_confidence |-> <<>>,
     identified_motivators |-> <<>>,
     identified_interests |-> <<>>,
     clarifications_used |-> 1,
     completed_profile |-> <<>>]

\* JourneyState as start_journey constructs it
NewJourney ==
    [status |-> IN_PROGRESS,
     current_question_number |-> 0,
     questions_asked |-> <<>>,
     responses |-> <<>>,
     analyses |-> <<>>,
     current_confidence |-> <<>>,
     identified_motivators |-> <<>>,
     identified_interests |-> <<>>,
     clarifications_used |-> 0,
     completed_profile |-> <<>>]

NoResponse == [question_id |-> 0, response_text |-> "", skipped |-> FALSE]

\* A call slot with no request in it.
IdleCall ==
    [op |-> "idle", pc |-> "idle", jid |-> "",
     before |-> <<>>,          \* the store entry when the request arrived
     after_terminal |-> FALSE, \* a respond had returned Complete or SavePartial by then
     journey_state |-> <<>>,   \* the handler's local journey_state
     response |-> NoResponse,  \* respond: the submitted answer
     decision |-> None,        \* respond: the decision made
     update_data |-> <<>>,     \* update-profile: the confidence the client sent, if any
     error |-> None,           \* the error raised, if any
     result |-> <<>>,          \* the value returned
     published |-> <<>>,       \* the events the call has published, in order
     collaborators |-> <<>>]   \* the collaborators the call has invoked, in order

\* What the model remembers of each journey's finished calls.
NoHistory == [generated |-> 0, terminal |-> None, overlaps |-> 0]

Stored(j) == j \in DOMAIN store
Entry(j) == IF Stored(j) THEN <<store[j]>> ELSE <<>>

\* _save_journey_state: redis SETEX
save_journey_state(j, journey_state) ==
    [x \in DOMAIN store \cup {j} |-> IF x = j THEN journey_state ELSE store[x]]

InFlight(c) == calls[c].op # "idle"

\* A request is taken by the lowest free slot.  The id of a journey is
\* known to clients only once its start has returned.  A request may overlap
\* a call in flight only when overlap is allowed, the journey is young (or
\* has reached MinLateQuestions questions) and fewer than MaxOverlaps calls on
\* it have done so.
Alone == \A d \in Calls : ~InFlight(d)

MayBegin(c, j, overlap) ==
    /\ ~InFlight(c)
    /\ \A d \in Calls : d < c => InFlight(d)
    /\ \A d \in Calls : ~(calls[d].op = "start" /\ calls[d].jid = j)
    /\ \/ Alone
       \/ /\ overlap
          /\ hist[j].overlaps < MaxOverlaps
          /\ Stored(j) => \/ store[j].current_question_number <= MaxOverlapQuestions
                          \/ store[j].current_question_number >= MinLateQuestions

\* The call record of a request that arrives, and the count of overlaps.
Begin(c, op, pc, j) ==
    [IdleCall EXCEPT !.op = op, !.pc = pc, !.jid = j, !.before = Entry(j),
                     !.after_terminal = hist[j].terminal # None]

Arrive(j) ==
    /\ hist' = [hist EXCEPT ![j].overlaps = IF Alone THEN @ ELSE @ + 1]
    /\ UNCHANGED <<store, nextQid, probe>>

Raise(c, kind) == [calls EXCEPT ![c].pc = "done", ![c].error = kind]

\* What a call of an LLM collaborator can raise: the client's APIError, or
\* json.loads' JSONDecodeError on a reply that is not JSON.
CollaboratorErrors == {"APIError", "JSONDecodeError"}

\* The collaborator was invoked and raised.
RaiseFrom(c, collaborator, kind) ==
    [calls EXCEPT ![c].pc = "done", ![c].error = kind,
                  ![c].collaborators = Append(@, collaborator)]

(***************************************************************************)
(* compass_orchestrator.py: start_journey                                  *)
(***************************************************************************)
StartBegin(c, overlap) ==
    /\ \E j \in JourneyIds :
         /\ ~Stored(j)
         /\ \A d \in Calls : calls[d].jid # j
         /\ MayBegin(c, j, overlap)
         /\ calls' = [calls EXCEPT ![c] = Begin(c, "start", "init_save", j)]
         /\ Arrive(j)

\* lines 49-66: build the JourneyState and save it
StartSaveInitial(c) ==
    /\ calls[c].pc = "init_save"
    /\ store' = save_journey_state(calls[c].jid, NewJourney)
    /\ calls' = [calls EXCEPT ![c].pc = "pub_started", ![c].result = <<NewJourney>>]
    /\ UNCHANGED <<nextQid, hist, probe>>

\* lines 68-74: publish journey.started; the publication may raise
StartPublish(c) ==
    /\ calls[c].pc = "pub_started"
    /\ \/ calls' = [calls EXCEPT ![c].pc = "q_load",
                                   ![c].published = Append(@, "journey.started")]
       \/ calls' = Raise(c, "Failed")
    /\ UNCHANGED <<store, nextQid, hist, probe>>

(***************************************************************************)
(* compass_orchestrator.py: generate_next_question (also the tail of       *)
(* start_journey)                                                          *)
(***************************************************************************)
NextBegin(c, j, overlap, cap) ==
    /\ MayBegin(c, j, overlap)
    /\ Stored(j) => store[j].current_question_number < cap
    /\ calls' = [calls EXCEPT ![c] = Begin(c, "next", "q_load", j)]
    /\ Arrive(j)

\* lines 91-94
QuestionLoad(c) ==
    /\ calls[c].pc = "q_load"
    /\ IF Stored(calls[c].jid)
       THEN calls' = [calls EXCEPT ![c].pc = "q_gen",
                                   ![c].journey_state = <<store[calls[c].jid]>>]
       ELSE calls' = Raise(c, "NotFound")
    /\ UNCHANGED <<store, nextQid, hist, probe>>

\* Faulty variant of append_question: no clarification is ever counted.
append_question_uncounted(journey_state, question) ==
    LET appended == Append(journey_state.questions_asked, question)
    IN [journey_state EXCEPT !.questions_asked = appended,
                             !.current_question_number = Len(appended)]

\* Faulty variant of append_question: question 15 already counts as a
\* clarification.
append_question_early(journey_state, question) ==
    LET appended == Append(journey_state.questions_asked, question)
        number == Len(appended)
    IN [journey_state EXCEPT
          !.questions_asked = appended,
          !.current_question_number = number,
          !.clarifications_used = IF number >= 15 THEN @ + 1 ELSE @]

\* lines 107-114: append the question, set the count, count a clarification
append_question(journey_state, question) ==
    LET appended == Append(journey_state.questions_asked, question)
        number == Len(appended)
    IN [journey_state EXCEPT
          !.questions_asked = appended,
          !.current_question_number = number,
          !.clarifications_used = IF number > 15 THEN @ + 1 ELSE @]

\* lines 100-117: the generator returns a question (or raises); the state is
\* updated and saved.
QuestionGenerate(c) ==
    /\ calls[c].pc = "q_gen"
    /\ LET j == calls[c].jid
           journey_state == calls[c].journey_state[1]
           question_number == Len(journey_state.questions_asked) + 1
       IN \/ \E options \in GeneratedOptions(question_number) :
               LET question == [question_id |-> nextQid,
                                question_number |-> question_number,
                                options |-> options]
                   updated == append_question(journey_state, question)
               IN /\ store' = save_journey_state(j, updated)
                  /\ calls' = [calls EXCEPT
                                 ![c].pc = "q_pub",
                                 ![c].journey_state = <<updated>>,
                                 ![c].collaborators = Append(@, "question_generator"),
                                 ![c].result = IF calls[c].op = "next" THEN <<question>> ELSE @]
                  /\ nextQid' = nextQid + 1
                  /\ hist' = [hist EXCEPT ![j].generated = @ + 1]
          \/ /\ \E kind \in CollaboratorErrors :
                  calls' = RaiseFrom(c, "question_generator", kind)
             /\ UNCHANGED <<store, nextQid, hist>>
    /\ UNCHANGED probe

\* lines 119-127: publish question.generated and return
QuestionPublish(c) ==
    /\ calls[c].pc = "q_pub"
    /\ \/ calls' = [calls EXCEPT ![c].pc = "done",
                                   ![c].published = Append(@, "question.generated")]
       \/ calls' = Raise(c, "Failed")
    /\ UNCHANGED <<store, nextQid, hist, probe>>

(***************************************************************************)
(* compass_orchestrator.py: process_response                               *)
(***************************************************************************)
RespondBegin(c, j, question_id, response_text, skipped, overlap, cap) ==
    /\ MayBegin(c, j, overlap)
    /\ Stored(j) => Len(store[j].responses) < cap
    /\ calls' = [calls EXCEPT ![c] =
                   [Begin(c, "respond", "r_load", j) EXCEPT
                      !.response = [question_id |-> question_id,
                                    response_text |-> IF skipped THEN "" ELSE response_text,
                                    skipped |-> skipped]]]
    /\ Arrive(j)

\* Faulty variant of find_question: the first question asked stands in for an
\* id that no question has.
find_question_lenient(journey_state, question_id) ==
    LET found == SelectSeq(journey_state.questions_asked,
                           LAMBDA q : q.question_id = question_id)
    IN IF found # <<>> THEN <<found[1]>>
       ELSE IF journey_state.questions_asked # <<>>
            THEN <<journey_state.questions_asked[1]>> ELSE <<>>

\* lines 143-146: the first question asked that has the id, if any
find_question(journey_state, question_id) ==
    LET found == SelectSeq(journey_state.questions_asked,
                           LAMBDA q : q.question_id = question_id)
    IN IF found = <<>> THEN <<>> ELSE <<found[1]>>

\* lines 137-148
RespondLoad(c) ==
    /\ calls[c].pc = "r_load"
    /\ IF Stored(calls[c].jid)
          /\ find_question(store[calls[c].jid], calls[c].response.question_id) # <<>>
       THEN calls' = [calls EXCEPT ![c].pc = "r_analyze",
                                   ![c].journey_state = <<store[calls[c].jid]>>]
       ELSE calls' = Raise(c, "NotFound")
    /\ UNCHANGED <<store, nextQid, hist, probe>>

\* Faulty variant of record_response: a skipped answer is recorded without
\* its extraction.
record_response_unpaired(journey_state, user_response, analysis) ==
    LET appended == [journey_state EXCEPT
                       !.responses = Append(@, user_response),
                       !.analyses = IF user_response.skipped THEN @ ELSE Append(@, analysis)]
        profiled == update_current_profile(appended)
    IN [profiled EXCEPT !.current_confidence =
          <<calculate_confidence(profiled.analyses, profiled.responses,
                                 profiled.current_question_number)>>]

\* lines 165-180: append answer and extraction, aggregate, score
record_response(journey_state, user_response, analysis) ==
    LET appended == [journey_state EXCEPT !.responses = Append(@, user_response),
                                          !.analyses = Append(@, analysis)]
        profiled == update_current_profile(appended)
    IN [profiled EXCEPT !.current_confidence =
          <<calculate_confidence(profiled.analyses, profiled.responses,
                                 profiled.current_question_number)>>]

\* line 177: the decision for the updated state
decide(journey_state) ==
    make_decision(journey_state.current_question_number, journey_state.clarifications_used,
                  journey_state.responses, journey_state.current_confidence[1]).decision

\* Faulty variant of after_decision: the decision is returned but not acted on.
after_decision_ignored(decision) == "r_save"

\* lines 183-186: where process_response goes after the decision
after_decision(decision) ==
    IF decision = COMPLETE THEN "synth"
    ELSE IF decision = SAVE_PARTIAL THEN "r_partial"
    ELSE "r_save"

\* lines 159-186: analyse (the extractor may raise), update, decide
RespondAnalyze(c) ==
    /\ calls[c].pc = "r_analyze"
    /\ LET journey_state == calls[c].journey_state[1]
           user_response == calls[c].response
           question == find_question(journey_state, user_response.question_id)[1]
           Proceed(extracted, invoked) ==
               LET updated == record_response(journey_state, user_response,
                                  analyze_response(user_response, question, extracted))
               IN calls' = [calls EXCEPT ![c].journey_state = <<updated>>,
                                         ![c].decision = decide(updated),
                                         ![c].collaborators = @ \o invoked,
                                         ![c].pc = after_decision(decide(updated))]
       IN IF needs_extractor(user_response, question)
          THEN \/ \E extracted \in ExtractorResults :
                    Proceed(extracted, <<"response_analyzer">>)
               \/ \E kind \in CollaboratorErrors :
                    calls' = RaiseFrom(c, "response_analyzer", kind)
          ELSE Proceed(WeakResult, <<>>)
    /\ UNCHANGED <<store, nextQid, hist, probe>>

\* _save_partial_profile (lines 318-322)
RespondSavePartial(c) ==
    /\ calls[c].pc = "r_partial"
    /\ LET updated == [calls[c].journey_state[1] EXCEPT !.status = ABANDONED]
       IN /\ store' = save_journey_state(calls[c].jid, updated)
          /\ calls' = [calls EXCEPT ![c].journey_state = <<updated>>, ![c].pc = "r_save"]
    /\ UNCHANGED <<nextQid, hist, probe>>

\* lines 188-190
RespondSave(c) ==
    /\ calls[c].pc = "r_save"
    /\ store' = save_journey_state(calls[c].jid, calls[c].journey_state[1])
    /\ calls' = [calls EXCEPT ![c].pc = "r_pub"]
    /\ UNCHANGED <<nextQid, hist, probe>>

\* lines 192-201: publish response.processed and return the decision
RespondPublish(c) ==
    /\ calls[c].pc = "r_pub"
    /\ \/ /\ calls' = [calls EXCEPT ![c].pc = "done", ![c].result = <<calls[c].decision>>,
                                      ![c].published = Append(@, "response.processed")]
          /\ hist' = [hist EXCEPT
                        ![calls[c].jid].terminal =
                            IF @ = None /\ calls[c].decision \in {COMPLETE, SAVE_PARTIAL}
                            THEN calls[c].decision ELSE @]
       \/ /\ calls' = Raise(c, "Failed")
          /\ UNCHANGED hist
    /\ UNCHANGED <<store, nextQid, probe>>

(***************************************************************************)
(* compass_orchestrator.py: complete_journey, _complete_journey            *)
(***************************************************************************)
CompleteBegin(c, j, overlap) ==
    /\ MayBegin(c, j, overlap)
    /\ calls' = [calls EXCEPT ![c] = Begin(c, "complete", "c_load", j)]
    /\ Arrive(j)

\* lines 204-207
CompleteLoad(c) ==
    /\ calls[c].pc = "c_load"
    /\ IF Stored(calls[c].jid)
       THEN calls' = [calls EXCEPT ![c].pc = "synth",
                                   ![c].journey_state = <<store[calls[c].jid]>>]
       ELSE calls' = Raise(c, "NotFound")
    /\ UNCHANGED <<store, nextQid, hist, probe>>

\* _complete_journey lines 297-306: synthesize (the scoring or the insight
\* generator may raise), mark Completed, save
Synthesize(c) ==
    /\ calls[c].pc = "synth"
    /\ LET journey_state == calls[c].journey_state[1]
           completed_profile == synthesize_profile(journey_state)
           updated == [journey_state EXCEPT !.status = COMPLETED,
                                            !.completed_profile = <<completed_profile>>]
       IN \/ /\ ~final_riasec_raises(journey_state.analyses)
             /\ store' = save_journey_state(calls[c].jid, updated)
             /\ calls' = [calls EXCEPT
                            ![c].journey_state = <<updated>>,
                            ![c].pc = "pub_completed",
                            ![c].collaborators = Append(@, "profile_synthesizer"),
                            ![c].result = IF calls[c].op = "complete"
                                          THEN <<completed_profile>> ELSE @]
          \/ /\ final_riasec_raises(journey_state.analyses)
             /\ calls' = Raise(c, "Failed")
             /\ UNCHANGED store
          \/ /\ ~final_riasec_raises(journey_state.analyses)
             /\ \E kind \in CollaboratorErrors :
                  calls' = RaiseFrom(c, "profile_synthesizer", kind)
             /\ UNCHANGED store
    /\ UNCHANGED <<nextQid, hist, probe>>

\* _complete_journey lines 308-316: publish journey.completed
PublishCompleted(c) ==
    /\ calls[c].pc = "pub_completed"
    /\ \/ calls' = [calls EXCEPT ![c].pc = IF calls[c].op = "respond" THEN "r_save" ELSE "done",
                                   ![c].published = Append(@, "journey.completed")]
       \/ calls' = Raise(c, "Failed")
    /\ UNCHANGED <<store, nextQid, hist, probe>>

(***************************************************************************)
(* compass_orchestrator.py: abandon_journey                                *)
(***************************************************************************)
AbandonBegin(c, j, overlap) ==
    /\ MayBegin(c, j, overlap)
    /\ calls' = [calls EXCEPT ![c] = Begin(c, "abandon", "a_load", j)]
    /\ Arrive(j)

\* lines 215-217
AbandonLoad(c) ==
    /\ calls[c].pc = "a_load"
    /\ IF Stored(calls[c].jid)
       THEN calls' = [calls EXCEPT ![c].pc = "a_save",
                                   ![c].journey_state = <<store[calls[c].jid]>>]
       ELSE calls' = Raise(c, "NotFound")
    /\ UNCHANGED <<store, nextQid, hist, probe>>

\* Faulty variant of abandoned: the confidence snapshot is dropped.
abandoned_reset(journey_state) ==
    [journey_state EXCEPT !.status = ABANDONED, !.current_confidence = <<>>]

\* line 219: the journey marked Abandoned
abandoned(journey_state) == [journey_state EXCEPT !.status = ABANDONED]

\* lines 219-222
AbandonSave(c) ==
    /\ calls[c].pc = "a_save"
    /\ LET updated == abandoned(calls[c].journey_state[1])
       IN /\ store' = save_journey_state(calls[c].jid, updated)
          /\ calls' = [calls EXCEPT ![c].journey_state = <<updated>>,
                                    ![c].result = <<updated>>,
                                    ![c].pc = "a_pub"]
    /\ UNCHANGED <<nextQid, hist, probe>>

\* lines 224-229
AbandonPublish(c) ==
    /\ calls[c].pc = "a_pub"
    /\ \/ calls' = [calls EXCEPT ![c].pc = "done",
                                   ![c].published = Append(@, "journey.abandoned")]
       \/ calls' = Raise(c, "Failed")
    /\ UNCHANGED <<store, nextQid, hist, probe>>

(***************************************************************************)
(* compass-service/main.py: POST /journey/{journey_id}/update-profile      *)
(***************************************************************************)
\* A ConfidenceScore a client can send: any values within the schema's range.
ClientConfidence ==
    [riasec_confidence |-> [d \in 1..6 |-> 0],
     motivator_confidence |-> 0, interest_confidence |-> 0,
     overall_confidence |-> Milli(100), ready_to_complete |-> TRUE, gaps_remaining |-> <<>>]

\* The request body's current_confidence is optional.
UpdateProfileBegin(c, j, current_confidence, overlap) ==
    /\ MayBegin(c, j, overlap)
    /\ Stored(j) => store[j].current_question_number <= MaxUpdateQuestions
    /\ calls' = [calls EXCEPT ![c] = [Begin(c, "update", "u_load", j)
                                         EXCEPT !.update_data = current_confidence]]
    /\ Arrive(j)

\* lines 243-245: load the journey, 404 when there is none
UpdateProfileLoad(c) ==
    /\ calls[c].pc = "u_load"
    /\ IF Stored(calls[c].jid)
       THEN calls' = [calls EXCEPT ![c].pc = "u_save",
                                   ![c].journey_state = <<store[calls[c].jid]>>]
       ELSE calls' = Raise(c, "NotFound")
    /\ UNCHANGED <<store, nextQid, hist, probe>>

\* lines 248-249: the journey with the client's confidence, when one was sent
with_confidence(journey_state, current_confidence) ==
    IF current_confidence # <<>>
    THEN [journey_state EXCEPT !.current_confidence = current_confidence]
    ELSE journey_state

\* lines 248-255
UpdateProfileSave(c) ==
    /\ calls[c].pc = "u_save"
    /\ LET updated == with_confidence(calls[c].journey_state[1], calls[c].update_data)
       IN /\ store' = save_journey_state(calls[c].jid, updated)
          /\ calls' = [calls EXCEPT ![c].journey_state = <<updated>>,
                                    ![c].pc = "u_pub"]
    /\ UNCHANGED <<nextQid, hist, probe>>

\* lines 258-267: publish compass.profile.updated
UpdateProfilePublish(c) ==
    /\ calls[c].pc = "u_pub"
    /\ \/ calls' = [calls EXCEPT ![c].pc = "done",
                                   ![c].published = Append(@, "compass.profile.updated")]
       \/ calls' = Raise(c, "Failed")
    /\ UNCHANGED <<store, nextQid, hist, probe>>

\* The response (or the error) is delivered and the slot is free again.
Return(c) ==
    /\ calls[c].pc = "done"
    /\ calls' = [calls EXCEPT ![c] = IdleCall]
    /\ UNCHANGED <<store, nextQid, hist, probe>>

(***************************************************************************)
(* compass-service/main.py and api-gateway/main.py: the status reported    *)
(***************************************************************************)
\* The errors that are instances of ValueError: the orchestrator's own
\* "not found" and json.JSONDecodeError.
ValueErrors == {"NotFound", "JSONDecodeError"}

\* The HTTP status the compass service answers with.  /journey/start turns
\* every exception into 500; next-question, respond and complete turn a
\* ValueError into 404 and anything else into 500; there is no abandon route,
\* and a path without a route is answered 404.
service_status(op, error) ==
    IF op = "abandon" THEN 404
    ELSE IF error = None THEN 200
    ELSE IF op = "start" THEN 500
    ELSE IF error \in ValueErrors THEN 404
    ELSE 500

\* The HTTP status the gateway answers with: call_service raises on every
\* status that is not a success, and each compass route of the gateway turns
\* every exception into 500.  The gateway has no complete route.
gateway_status(op, error) ==
    IF op = "complete" THEN 404
    ELSE IF service_status(op, error) = 200 THEN 200
    ELSE 500

(***************************************************************************)
(* Specifications                                                          *)
(***************************************************************************)
\* The inputs of a direct call of make_decision and, once made, its result.
ProbeResponses(total, skipped) ==
    [i \in 1..total |-> [question_id |-> i, response_text |-> "", skipped |-> i <= skipped]]

ProbeGaps == {<<>>, <<"Realistic", "Career motivators">>}

NoProbe ==
    [fn |-> "none", questions_asked |-> 0, clarifications_used |-> 0, responses |-> <<>>,
     confidence_score |-> [overall_confidence |-> 0, gaps_remaining |-> <<>>], out |-> <<>>]

Init ==
    /\ store = <<>>
    /\ calls = [c \in Calls |-> IdleCall]
    /\ nextQid = 1
    /\ hist = [j \in JourneyIds |-> NoHistory]
    /\ probe = NoProbe

\* The steps of the calls other than those of start_journey's own part.
TurnStep(c) ==
    \/ QuestionLoad(c)
    \/ QuestionGenerate(c)
    \/ QuestionPublish(c)
    \/ RespondLoad(c)
    \/ RespondAnalyze(c)
    \/ RespondSavePartial(c)
    \/ RespondSave(c)
    \/ RespondPublish(c)
    \/ CompleteLoad(c)
    \/ Synthesize(c)
    \/ PublishCompleted(c)
    \/ AbandonLoad(c)
    \/ AbandonSave(c)
    \/ AbandonPublish(c)
    \/ Return(c)

Step(c) ==
    \/ StartSaveInitial(c)
    \/ StartPublish(c)
    \/ TurnStep(c)

\* Question ids are given out from 1: a respond with question id 0 names a
\* question no journey has.
TurnRequest(c, overlap, question_cap, response_cap) ==
    \E j \in JourneyIds :
         \/ NextBegin(c, j, overlap, question_cap)
         \/ \E question_id \in 0..MaxAnswerId, response_text \in ResponseTexts, skipped \in BOOLEAN :
              /\ skipped => response_text = "A"
              /\ question_id = 0 => response_text = "A" /\ ~skipped
              /\ RespondBegin(c, j, question_id, response_text, skipped, overlap, response_cap)
         \/ CompleteBegin(c, j, overlap)
         \/ AbandonBegin(c, j, overlap)

Request(c, overlap, question_cap, response_cap) ==
    \/ StartBegin(c, overlap)
    \/ TurnRequest(c, overlap, question_cap, response_cap)

Next == \E c \in Calls : Request(c, TRUE, MaxConcurrentQuestions, MaxConcurrentResponses) \/ Step(c)

Spec == Init /\ [][Next]_vars

SeqNext == \E c \in Calls : Request(c, FALSE, MaxQuestions, MaxResponses) \/ Step(c)

SeqSpec == Init /\ [][SeqNext]_vars

\* The routes of the service that write the journey, update-profile
\* included, taken one at a time.
UpdateProfileStep(c) ==
    \/ UpdateProfileLoad(c)
    \/ UpdateProfileSave(c)
    \/ UpdateProfilePublish(c)

RouteNext ==
    \E c \in Calls :
        \/ Request(c, FALSE, MaxRouteQuestions, MaxResponses)
        \/ \E j \in JourneyIds, current_confidence \in {<<>>, <<ClientConfidence>>} :
              UpdateProfileBegin(c, j, current_confidence, FALSE)
        \/ Step(c)
        \/ UpdateProfileStep(c)

RouteSpec == Init /\ [][RouteNext]_vars

(***************************************************************************)
(* api-gateway/main.py: the compass routes of the gateway                  *)
(***************************************************************************)
\* The operations the compass service has a route for.
compass_routes == {"start", "next", "respond", "complete", "update"}

\* abandon_compass_journey: the gateway posts to /journey/{journey_id}/abandon
\* of the compass service, which has no such route and answers 404;
\* call_service raises on that status and the gateway answers 500.  The
\* journey is neither read nor written.
GatewayAbandon(c, j) ==
    /\ MayBegin(c, j, FALSE)
    /\ "abandon" \notin compass_routes
    /\ calls' = [calls EXCEPT ![c] = [Begin(c, "abandon", "done", j) EXCEPT !.error = "NoRoute"]]
    /\ Arrive(j)

\* The requests the gateway forwards, one at a time: start, next-question,
\* response, abandon and update-profile; it has no complete route.  The
\* gateway's own module.started and profile.updated events are published
\* after the service has answered and touch nothing of the journey.
GatewayNext ==
    \E c \in Calls :
        \/ StartBegin(c, FALSE)
        \/ \E j \in JourneyIds :
              \/ NextBegin(c, j, FALSE, MaxQuestions)
              \/ \E question_id \in 0..MaxAnswerId, response_text \in ResponseTexts, skipped \in BOOLEAN :
                   /\ skipped => response_text = "A"
                   /\ question_id = 0 => response_text = "A" /\ ~skipped
                   /\ RespondBegin(c, j, question_id, response_text, skipped, FALSE, MaxResponses)
              \/ \E current_confidence \in {<<>>, <<ClientConfidence>>} :
                   UpdateProfileBegin(c, j, current_confidence, FALSE)
              \/ GatewayAbandon(c, j)
        \/ StartSaveInitial(c)
        \/ StartPublish(c)
        \/ QuestionLoad(c)
        \/ QuestionGenerate(c)
        \/ QuestionPublish(c)
        \/ RespondLoad(c)
        \/ RespondAnalyze(c)
        \/ RespondSavePartial(c)
        \/ RespondSave(c)
        \/ RespondPublish(c)
        \/ Synthesize(c)
        \/ PublishCompleted(c)
        \/ UpdateProfileStep(c)
        \/ Return(c)

GatewaySpec == Init /\ [][GatewayNext]_vars

\* A journey late in its course: start and MinLateQuestions - 1 calls of
\* nextQuestion have returned, no answer has been given yet.
LateJourney ==
    LET questions_asked == [n \in 1..MinLateQuestions |->
                              [question_id |-> n, question_number |-> n,
                               options |-> <<OptionA, OptionB>>]]
    IN [NewJourney EXCEPT !.questions_asked = questions_asked,
                          !.current_question_number = MinLateQuestions]

LateInit ==
    /\ store = [j \in JourneyIds |-> LateJourney]
    /\ calls = [c \in Calls |-> IdleCall]
    /\ nextQid = MinLateQuestions + 1
    /\ hist = [j \in JourneyIds |-> [NoHistory EXCEPT !.generated = MinLateQuestions]]
    /\ probe = NoProbe

\* The calls on the late journey, which may overlap.
LateNext ==
    \E c \in Calls : TurnRequest(c, TRUE, MaxLateQuestions, MaxLateResponses) \/ TurnStep(c)

LateSpec == LateInit /\ [][LateNext]_vars

\* make_decision called directly on each of a grid of inputs.
DecisionInit ==
    /\ store = <<>>
    /\ calls = [c \in Calls |-> IdleCall]
    /\ nextQid = 1
    /\ hist = [j \in JourneyIds |-> NoHistory]
    /\ probe \in
         {[fn |-> "make_decision",
           questions_asked |-> q,
           clarifications_used |-> clar,
           responses |-> ProbeResponses(total, skipped),
           confidence_score |-> [overall_confidence |-> Milli(overall), gaps_remaining |-> gaps],
           out |-> <<>>] :
             q \in 0..MaxProbeQuestions, clar \in 0..MaxProbeClar, overall \in 0..100,
             gaps \in ProbeGaps,
             total \in 0..MaxProbeResponses,
             skipped \in {0, MaxProbeResponses - 1, MaxProbeResponses}}

Decide ==
    /\ probe.fn = "make_decision"
    /\ probe.out = <<>>
    /\ probe' = [probe EXCEPT !.out =
                   <<make_decision(probe.questions_asked, probe.clarifications_used,
                                   probe.responses, probe.confidence_score)>>]
    /\ UNCHANGED <<store, calls, nextQid, hist>>

DecisionNext == Decide

DecisionSpec == DecisionInit /\ [][DecisionNext]_vars

(***************************************************************************)
(* calculate_confidence called directly on bounded histories               *)
(***************************************************************************)
MaxProbeTurns == 3

\* One signal of confidence 90 for "realistic", a weak motivator, a faint
\* interest.
SingleSignalAnalysis ==
    [riasec_signals |-> [d \in {"realistic"} |-> [score |-> 7, confidence |-> 90]],
     motivators |-> <<[type |-> "autonomy", strength |-> 1, confidence |-> 40]>>,
     interests |-> <<[category |-> "technology", specific |-> "detail", enthusiasm |-> 1]>>,
     response_quality |-> "medium"]

\* Signals at the ends of their ranges.
ExtremeAnalysis ==
    [riasec_signals |-> [d \in {"realistic", "investigative"} |->
                           IF d = "realistic" THEN [score |-> 1, confidence |-> 0]
                           ELSE [score |-> 10, confidence |-> 100]],
     motivators |-> <<[type |-> "autonomy", strength |-> 10, confidence |-> 90]>>,
     interests |-> <<[category |-> "technology", specific |-> "detail", enthusiasm |-> 10]>>,
     response_quality |-> "high"]

\* An answer with the extraction recorded for it.
ProbeTurns ==
    LET answered(text) == [question_id |-> 1, response_text |-> text, skipped |-> FALSE]
    IN {[response |-> [question_id |-> 1, response_text |-> "", skipped |-> TRUE],
         analysis |-> create_skipped_analysis],
        [response |-> answered("A"),
         analysis |-> analyze_mcq_with_metadata(answered("A"), [options |-> <<OptionA, OptionB>>])],
        [response |-> answered("free text"), analysis |-> process_analysis_result(StrongResult)],
        [response |-> answered("free text"), analysis |-> process_analysis_result(WeakResult)],
        [response |-> answered("free text"), analysis |-> SingleSignalAnalysis],
        [response |-> answered("free text"), analysis |-> ExtremeAnalysis]}

ScoreInit ==
    /\ store = <<>>
    /\ calls = [c \in Calls |-> IdleCall]
    /\ nextQid = 1
    /\ hist = [j \in JourneyIds |-> NoHistory]
    /\ \E n \in 0..MaxProbeTurns :
         \E turns \in [1..n -> ProbeTurns] :
            probe = [fn |-> "calculate_confidence",
                     responses |-> [i \in 1..n |-> turns[i].response],
                     analyses |-> [i \in 1..n |-> turns[i].analysis],
                     current_question_number |-> n,
                     out |-> <<>>]

Score ==
    /\ probe.fn = "calculate_confidence"
    /\ probe.out = <<>>
    /\ probe' = [probe EXCEPT !.out =
                   <<calculate_confidence(probe.analyses, probe.responses,
                                          probe.current_question_number)>>]
    /\ UNCHANGED <<store, calls, nextQid, hist>>

ScoreNext == Score

ScoreSpec == ScoreInit /\ [][ScoreNext]_vars

(***************************************************************************)
(* analyze_response called directly on an answer and a question            *)
(***************************************************************************)
AnalyzeTexts == {"A", "B", "C", "D", "a", "free text"}
AnalyzeOptions == {<<>>, <<OptionA>>, <<OptionA, OptionB>>, <<OptionA, OptionB, OptionA, OptionB>>}

AnalyzeInit ==
    /\ store = <<>>
    /\ calls = [c \in Calls |-> IdleCall]
    /\ nextQid = 1
    /\ hist = [j \in JourneyIds |-> NoHistory]
    /\ \E response_text \in AnalyzeTexts, skipped \in BOOLEAN, options \in AnalyzeOptions :
         probe = [fn |-> "analyze_response",
                  response |-> [question_id |-> 1, response_text |-> response_text,
                                skipped |-> skipped],
                  question |-> [question_id |-> 1, options |-> options],
                  collaborators |-> <<>>,
                  error |-> None,
                  out |-> <<>>]

\* analyze_response returns an extraction, or the extractor it calls raises.
Analyze ==
    /\ probe.fn = "analyze_response"
    /\ probe.out = <<>> /\ probe.error = None
    /\ IF needs_extractor(probe.response, probe.question)
       THEN \/ \E extracted \in ExtractorResults :
                 probe' = [probe EXCEPT
                             !.out = <<analyze_response(probe.response, probe.question, extracted)>>,
                             !.collaborators = <<"response_analyzer">>]
            \/ \E kind \in CollaboratorErrors :
                 probe' = [probe EXCEPT !.error = kind,
                                        !.collaborators = <<"response_analyzer">>]
       ELSE probe' = [probe EXCEPT
                        !.out = <<analyze_response(probe.response, probe.question, WeakResult)>>]
    /\ UNCHANGED <<store, calls, nextQid, hist>>

AnalyzeNext == Analyze

AnalyzeSpec == AnalyzeInit /\ [][AnalyzeNext]_vars

(***************************************************************************)
(* _update_current_profile run directly on bounded extraction histories    *)
(***************************************************************************)
MaxAggregateTurns == 3
MaxAggregateRuns == 2

\* The same types, strengths and enthusiasms as other extractions carry, so
\* that ties arise; the entries differ from theirs in another field.
TiedAnalysis ==
    [riasec_signals |-> <<>>,
     motivators |-> <<[type |-> "autonomy", strength |-> 8, confidence |-> 90],
                      [type |-> "Money & Compensation", strength |-> 10, confidence |-> 40]>>,
     interests |-> <<[category |-> "technology", specific |-> "other", enthusiasm |-> 8],
                     [category |-> "arts", specific |-> "other", enthusiasm |-> 10]>>,
     response_quality |-> "medium"]

WideTypes ==
    <<"w01", "w02", "w03", "w04", "w05", "w06", "w07", "w08", "w09", "w10", "w11",
      "w12", "w13", "w14", "w15", "w16", "w17", "w18", "w19", "w20", "w21", "w22">>

\* More motivator types than 12 and more interest categories than 20.
WideAnalysis ==
    [riasec_signals |-> <<>>,
     motivators |-> [k \in 1..14 |->
                       [type |-> WideTypes[k], strength |-> (k % 10) + 1, confidence |-> 60]],
     interests |-> [k \in 1..22 |->
                      [category |-> WideTypes[k], specific |-> "detail",
                       enthusiasm |-> ((3 * k) % 10) + 1]],
     response_quality |-> "high"]

AggregateAnalyses ==
    {process_analysis_result(StrongResult),
     process_analysis_result(WeakResult),
     analyze_mcq_with_metadata([question_id |-> 1, response_text |-> "A", skipped |-> FALSE],
                               [options |-> <<OptionA, OptionB>>]),
     TiedAnalysis,
     WideAnalysis}

\* Lists a journey may hold before the run.
StaleMotivators == {<<>>, <<[type |-> "stale", strength |-> 3, confidence |-> 40]>>}
StaleInterests == {<<>>, <<[category |-> "stale", specific |-> "detail", enthusiasm |-> 3]>>}

AggregateInit ==
    /\ store = <<>>
    /\ calls = [c \in Calls |-> IdleCall]
    /\ nextQid = 1
    /\ hist = [j \in JourneyIds |-> NoHistory]
    /\ \E n \in 0..MaxAggregateTurns :
         \E analyses \in [1..n -> AggregateAnalyses],
            motivators \in StaleMotivators, interests \in StaleInterests :
            probe = [fn |-> "update_current_profile",
                     journey_state |-> [NewJourney EXCEPT
                                          !.analyses = analyses,
                                          !.identified_motivators = motivators,
                                          !.identified_interests = interests],
                     runs |-> 0,
                     first |-> <<>>]

\* One run of the aggregator over the journey; the lists of the first run
\* are remembered.
Aggregate ==
    /\ probe.fn = "update_current_profile"
    /\ probe.runs < MaxAggregateRuns
    /\ LET updated == update_current_profile(probe.journey_state)
       IN probe' = [probe EXCEPT
                      !.journey_state = updated,
                      !.runs = @ + 1,
                      !.first = IF probe.runs = 0
                                THEN <<[identified_motivators |-> updated.identified_motivators,
                                        identified_interests |-> updated.identified_interests]>>
                                ELSE @]
    /\ UNCHANGED <<store, calls, nextQid, hist>>

AggregateNext == Aggregate

AggregateSpec == AggregateInit /\ [][AggregateNext]_vars

(***************************************************************************)
(* _calculate_final_riasec called directly on bounded extraction histories *)
(***************************************************************************)
MaxRiasecTurns == 3

\* Two dimensions at the same top score, neither the first of the list.
SocialAnalysis ==
    [riasec_signals |-> [d \in {"social", "enterprising", "conventional"} |->
                           IF d = "enterprising" THEN [score |-> 4, confidence |-> 50]
                           ELSE [score |-> 10, confidence |-> 80]],
     motivators |-> <<>>,
     interests |-> <<>>,
     response_quality |-> "high"]

RiasecAnalyses ==
    {create_skipped_analysis,
     process_analysis_result(StrongResult),
     process_analysis_result(WeakResult),
     SingleSignalAnalysis,
     ExtremeAnalysis,
     SocialAnalysis}

RiasecInit ==
    /\ store = <<>>
    /\ calls = [c \in Calls |-> IdleCall]
    /\ nextQid = 1
    /\ hist = [j \in JourneyIds |-> NoHistory]
    /\ \E n \in 0..MaxRiasecTurns :
         \E analyses \in [1..n -> RiasecAnalyses] :
            probe = [fn |-> "calculate_final_riasec", analyses |-> analyses,
                     raised |-> FALSE, out |-> <<>>]

\* The call returns the scores and the code, or np.average raises.
FinalRiasec ==
    /\ probe.fn = "calculate_final_riasec"
    /\ probe.out = <<>>
    /\ ~probe.raised
    /\ IF final_riasec_raises(probe.analyses)
       THEN probe' = [probe EXCEPT !.raised = TRUE]
       ELSE probe' = [probe EXCEPT !.out = <<calculate_final_riasec(probe.analyses)>>]
    /\ UNCHANGED <<store, calls, nextQid, hist>>

RiasecNext == FinalRiasec

RiasecSpec == RiasecInit /\ [][RiasecNext]_vars

(***************************************************************************)
(* _organize_motivators and _cluster_interests run directly on bounded     *)
(* extraction histories                                                    *)
(***************************************************************************)
MaxOrganizeTurns == 3

\* Eight interests, none of an enthusiasm of 6 or more.
FaintAnalysis ==
    [riasec_signals |-> <<>>,
     motivators |-> <<[type |-> "autonomy", strength |-> 2, confidence |-> 40]>>,
     interests |-> [k \in 1..8 |->
                      [category |-> WideTypes[k], specific |-> "faint",
                       enthusiasm |-> ((k + 1) \div 2) + 1]],
     response_quality |-> "low"]

OrganizeAnalyses == AggregateAnalyses \cup {FaintAnalysis}

OrganizeInit ==
    /\ store = <<>>
    /\ calls = [c \in Calls |-> IdleCall]
    /\ nextQid = 1
    /\ hist = [j \in JourneyIds |-> NoHistory]
    /\ \E n \in 0..MaxOrganizeTurns, fn \in {"organize_motivators", "cluster_interests"} :
         \E analyses \in [1..n -> OrganizeAnalyses] :
            probe = [fn |-> fn, analyses |-> analyses, out |-> <<>>]

OrganizeMotivators ==
    /\ probe.fn = "organize_motivators"
    /\ probe.out = <<>>
    /\ probe' = [probe EXCEPT !.out = <<organize_motivators(probe.analyses)>>]
    /\ UNCHANGED <<store, calls, nextQid, hist>>

ClusterInterests ==
    /\ probe.fn = "cluster_interests"
    /\ probe.out = <<>>
    /\ probe' = [probe EXCEPT !.out = <<cluster_interests(probe.analyses)>>]
    /\ UNCHANGED <<store, calls, nextQid, hist>>

OrganizeNext == OrganizeMotivators \/ ClusterInterests

OrganizeSpec == OrganizeInit /\ [][OrganizeNext]_vars

(***************************************************************************)
(* question_generator.py: the theme memory of the QuestionGeneratorService *)
(* that all journeys of the process share                                  *)
(***************************************************************************)
ThemeJourneys == {"A", "B"}

\* The themes the collaborator may name in its replies.
Themes == {"t1", "t2", "t3", "t4", "t5", "t6"}

MaxAvoidThemes == 5

\* _build_generation_prompt line 161: list(self.used_question_themes)[:5];
\* the order of a set's elements is not fixed, so any MaxAvoidThemes of them
\* (all of them when there are no more) may be the ones sent.
avoid_themes(used_question_themes) ==
    {chosen \in SUBSET used_question_themes :
        Cardinality(chosen) = Min(MaxAvoidThemes, Cardinality(used_question_themes))}

ThemeInit ==
    /\ store = <<>>
    /\ calls = [c \in Calls |-> IdleCall]
    /\ nextQid = 1
    /\ hist = [j \in JourneyIds |-> NoHistory]
    /\ probe = [fn |-> "generate_question",
                used_question_themes |-> {},
                generated |-> [j \in ThemeJourneys |-> {}],
                request |-> <<>>]

\* generate_question for journey j: the prompt is built with the themes to
\* avoid, the collaborator replies with a theme, the theme is remembered.
\* The model also keeps the themes generated for each journey and, with the
\* request, those generated for j before it.
GenerateQuestion(j, question_theme) ==
    /\ probe.fn = "generate_question"
    /\ \E chosen \in avoid_themes(probe.used_question_themes) :
         probe' = [probe EXCEPT
                     !.used_question_themes = @ \cup {question_theme},
                     !.generated[j] = @ \cup {question_theme},
                     !.request = <<[journey |-> j,
                                    avoid_themes |-> chosen,
                                    own_themes |-> probe.generated[j]]>>]
    /\ UNCHANGED <<store, calls, nextQid, hist>>

ThemeNext == \E j \in ThemeJourneys, question_theme \in Themes : GenerateQuestion(j, question_theme)

ThemeSpec == ThemeInit /\ [][ThemeNext]_vars

(***************************************************************************)
(* Properties of the decision machine (DecisionSpec)                       *)
(***************************************************************************)
Decided == probe.fn = "make_decision" /\ probe.out # <<>>

\* C4: make_decision is total: for every questions_asked, clarifications_used,
\* overall confidence, gap list and answer history of the grid it returns one
\* decision, whose variant is Continue, Clarify, Complete or SavePartial.
C4_DecisionTotal ==
    Decided => probe.out[1].decision \in {CONTINUE, CLARIFY, COMPLETE, SAVE_PARTIAL}

\* C4 witness: a decision made with the clarification budget exhausted and
\* low confidence at the standard question count.
C4_Witness ==
    /\ Decided
    /\ probe.questions_asked = 15
    /\ probe.clarifications_used = 3
    /\ probe.confidence_score.overall_confidence = Milli(40)
    /\ probe.out[1].decision = COMPLETE

\* C5: the variant returned by make_decision is that of the first matching
\* rule of the list: (1) skip rate > 0.5 and questions_asked >= 5: SavePartial;
\* (2) questions_asked >= 12 and overall >= 85: Complete; (3) questions_asked
\* < 15: Continue; (4) questions_asked = 15: Complete if overall >= 75, else
\* Clarify if clarifications_used < 3, else Complete; (5) questions_asked > 15:
\* Complete if clarifications_used >= 3, else Complete if overall >= 75, else
\* Clarify.
C5_FirstMatchingRule ==
    Decided =>
        LET q == probe.questions_asked
            clar == probe.clarifications_used
            overall == probe.confidence_score.overall_confidence
            total == Len(probe.responses)
            skipped == Cardinality({i \in 1..total : probe.responses[i].skipped})
            rule ==
                IF total > 0 /\ 2 * skipped > total /\ q >= 5 THEN SAVE_PARTIAL
                ELSE IF q >= 12 /\ overall >= 85000 THEN COMPLETE
                ELSE IF q < 15 THEN CONTINUE
                ELSE IF q = 15
                THEN (IF overall >= 75000 THEN COMPLETE
                      ELSE IF clar < 3 THEN CLARIFY ELSE COMPLETE)
                ELSE (IF clar >= 3 THEN COMPLETE
                      ELSE IF overall >= 75000 THEN COMPLETE ELSE CLARIFY)
        IN probe.out[1].decision = rule

\* C5 witness: questions_asked = 12 with overall = 85 and no skipped answers
\* gives Complete.
C5_Witness ==
    /\ Decided
    /\ probe.questions_asked = 12
    /\ probe.confidence_score.overall_confidence = Milli(85)
    /\ \A i \in 1..Len(probe.responses) : ~probe.responses[i].skipped
    /\ probe.out[1].decision = COMPLETE

Finished(c, op) == calls[c].op = op /\ calls[c].pc = "done"
Succeeded(c, op) == Finished(c, op) /\ calls[c].error = None

\* C1 as stated: a nextQuestion or respond call that arrives after a respond
\* on the journey has returned Complete or SavePartial fails with
\* InvalidState and leaves the stored journey as it was.
C1_TerminalRejects ==
    \A c \in Calls :
        (/\ Finished(c, "next") \/ Finished(c, "respond")
         /\ calls[c].after_terminal)
            => /\ calls[c].error = "InvalidState"
               /\ Entry(calls[c].jid) = calls[c].before

\* C2 as stated: when two respond calls on one journey have both returned,
\* both answers are in the stored history, which has grown by two answers
\* and two extractions since the first of them arrived.
C2_NoLostUpdate ==
    \A c, d \in Calls :
        (/\ c # d
         /\ Succeeded(c, "respond") /\ Succeeded(d, "respond")
         /\ calls[c].jid = calls[d].jid)
            => LET journey_state == store[calls[c].jid]
                   base == Min(Len(calls[c].before[1].responses),
                               Len(calls[d].before[1].responses))
               IN /\ Len(journey_state.responses) = base + 2
                  /\ Len(journey_state.analyses) = base + 2

\* C3 as stated: when a start, nextQuestion, respond or complete call fails,
\* the store holds for the journey exactly what it held when the call
\* arrived; after a failed start it holds no journey.
C3_FailedTurnAtomic ==
    \A c \in Calls :
        (/\ calls[c].pc = "done"
         /\ calls[c].op \in {"start", "next", "respond", "complete"}
         /\ calls[c].error # None)
            => Entry(calls[c].jid) = calls[c].before

\* C7 as stated: when a respond returns Clarify, the stored
\* clarifications_used is one higher than it was when the call arrived.
C7_ClarifyConsumes ==
    \A c \in Calls :
        (Succeeded(c, "respond") /\ calls[c].decision = CLARIFY)
            => store[calls[c].jid].clarifications_used
                 = calls[c].before[1].clarifications_used + 1

\* C8 as stated: in every stored journey state the clarification counter is
\* between 0 and 3.
C8_ClarificationBounded ==
    \A j \in DOMAIN store : store[j].clarifications_used \in 0..3

\* C9 as stated: after k successful question generations for a journey, in
\* any interleaving of the calls, the stored question count is k, the
\* asked-questions list has k entries and they carry the numbers 1..k.
C9_CountMatchesGenerations ==
    \A j \in DOMAIN store :
        LET k == hist[j].generated IN
        /\ store[j].current_question_number = k
        /\ Len(store[j].questions_asked) = k
        /\ \A i \in 1..Len(store[j].questions_asked) :
               store[j].questions_asked[i].question_number = i

\* C10: when respond returns, the stored status is Completed with a final
\* profile if the decision is Complete; Abandoned, with the profile field as
\* it was, if the decision is SavePartial; and the status the journey had
\* when the call arrived if the decision is Continue or Clarify.
C10_StatusFollowsDecision ==
    \A c \in Calls :
        Succeeded(c, "respond") =>
            LET journey_state == store[calls[c].jid]
                before == calls[c].before[1]
            IN CASE calls[c].decision = COMPLETE ->
                      /\ journey_state.status = COMPLETED
                      /\ journey_state.completed_profile # <<>>
                 [] calls[c].decision = SAVE_PARTIAL ->
                      /\ journey_state.status = ABANDONED
                      /\ journey_state.completed_profile = before.completed_profile
                 [] OTHER -> journey_state.status = before.status

\* C10 witness: a respond on a journey in progress has returned Complete and
\* the stored journey is Completed with a profile.
C10_Witness ==
    \E c \in Calls :
        /\ Succeeded(c, "respond")
        /\ calls[c].decision = COMPLETE
        /\ calls[c].before[1].status = IN_PROGRESS
        /\ store[calls[c].jid].status = COMPLETED
        /\ store[calls[c].jid].completed_profile # <<>>

(***************************************************************************)
(* Properties of the operations taken one at a time (SeqSpec), continued   *)
(***************************************************************************)
\* The journey the call found in the store was already Completed.
OnCompleted(c) ==
    /\ calls[c].before # <<>>
    /\ calls[c].before[1].status = COMPLETED
    /\ calls[c].before[1].completed_profile # <<>>

\* C11: complete on a journey that is already Completed returns the profile
\* stored by the first complete, leaves the store as the first complete left
\* it and publishes no second journey.completed event.
C11_CompleteIdempotent ==
    \A c \in Calls :
        (Finished(c, "complete") /\ OnCompleted(c))
            => /\ calls[c].error = None
               /\ calls[c].result = calls[c].before[1].completed_profile
               /\ Entry(calls[c].jid) = calls[c].before
               /\ calls[c].published = <<>>

\* The request names a journey the store does not hold, or (respond) a
\* question id that none of the journey's questions has.
UnknownId(c) ==
    \/ calls[c].before = <<>>
    \/ /\ calls[c].op = "respond"
       /\ \A i \in 1..Len(calls[c].before[1].questions_asked) :
             calls[c].before[1].questions_asked[i].question_id # calls[c].response.question_id

\* C12: nextQuestion, respond, complete and abandon on an unknown journey id,
\* and respond with an unknown question id, fail with NotFound, call no
\* collaborator, publish no event and leave the store unchanged.
C12_UnknownIdNotFound ==
    \A c \in Calls :
        (/\ calls[c].op \in {"next", "respond", "complete", "abandon"}
         /\ calls[c].pc \notin {"q_load", "r_load", "c_load", "a_load"}
         /\ UnknownId(c))
            => /\ calls[c].pc = "done"
               /\ calls[c].error = "NotFound"
               /\ calls[c].collaborators = <<>>
               /\ calls[c].published = <<>>
               /\ Entry(calls[c].jid) = calls[c].before

\* C12 witness: a respond naming question id 0 on a stored journey that has
\* asked a question has failed with NotFound.
C12_Witness ==
    \E c \in Calls :
        /\ Finished(c, "respond")
        /\ calls[c].before # <<>>
        /\ calls[c].before[1].questions_asked # <<>>
        /\ calls[c].response.question_id = 0
        /\ calls[c].error = "NotFound"

\* C13: the error kinds are distinguishable at the compass service and
\* through the gateway: NotFound (404) is reported exactly when the journey
\* id or question id is unknown, and a collaborator failure or malformed
\* collaborator output is reported as a dependency error, never as NotFound.
C13_ErrorKindsDistinct ==
    \A c \in Calls :
        (calls[c].pc = "done" /\ calls[c].op \in {"next", "respond"})
            => /\ service_status(calls[c].op, calls[c].error) = 404 <=> UnknownId(c)
               /\ gateway_status(calls[c].op, calls[c].error) = 404 <=> UnknownId(c)
               /\ calls[c].error \in CollaboratorErrors
                    => /\ service_status(calls[c].op, calls[c].error) = 500
                       /\ gateway_status(calls[c].op, calls[c].error) = 500

\* C14: a successful start has stored a journey with status InProgress, no
\* answers, no extractions and clarifications_used = 0, has generated exactly
\* one question for it (stored question count 1), and returns a journey with
\* status InProgress and empty history.
C14_StartContract ==
    \A c \in Calls :
        Succeeded(c, "start")
            => /\ Stored(calls[c].jid)
               /\ store[calls[c].jid].status = IN_PROGRESS
               /\ store[calls[c].jid].responses = <<>>
               /\ store[calls[c].jid].analyses = <<>>
               /\ store[calls[c].jid].clarifications_used = 0
               /\ Len(store[calls[c].jid].questions_asked) = 1
               /\ store[calls[c].jid].current_question_number = 1
               /\ hist[calls[c].jid].generated = 1
               /\ Len(calls[c].result) = 1
               /\ calls[c].result[1].status = IN_PROGRESS
               /\ calls[c].result[1].responses = <<>>
               /\ calls[c].result[1].analyses = <<>>

\* C14 witness: a start has succeeded.
C14_Witness ==
    \E c \in Calls : Succeeded(c, "start") /\ Stored(calls[c].jid)

\* C15: a successful abandon has stored the journey it found with status
\* Abandoned and nothing else changed (questions, answers, extractions,
\* counters, confidence snapshot), returns that journey, and has published
\* exactly one event, journey.abandoned.
C15_AbandonFrame ==
    \A c \in Calls :
        Succeeded(c, "abandon")
            => /\ Entry(calls[c].jid) = <<[calls[c].before[1] EXCEPT !.status = ABANDONED]>>
               /\ calls[c].result = Entry(calls[c].jid)
               /\ calls[c].published = <<"journey.abandoned">>

\* C15 witness: an abandon has succeeded on a journey that was in progress
\* with an answer and a confidence snapshot.
C15_Witness ==
    \E c \in Calls :
        /\ Succeeded(c, "abandon")
        /\ calls[c].before[1].status = IN_PROGRESS
        /\ calls[c].before[1].responses # <<>>
        /\ calls[c].before[1].current_confidence # <<>>

\* C16: in every stored journey the answers are index-aligned to the asked
\* questions: there are no more answers than questions and the i-th answer
\* answers the i-th question.
C16_AnswersAligned ==
    \A j \in DOMAIN store :
        /\ Len(store[j].responses) <= Len(store[j].questions_asked)
        /\ \A i \in 1..Len(store[j].responses) :
             i <= Len(store[j].questions_asked)
                => store[j].responses[i].question_id = store[j].questions_asked[i].question_id

(***************************************************************************)
(* Properties under interleaving (Spec), continued                         *)
(***************************************************************************)
\* The extraction is one that analyze_response builds from the answer, for a
\* question of the journey with the answer's id.
BuiltFrom(analysis, response, journey_state) ==
    \E i \in 1..Len(journey_state.questions_asked), extracted \in ExtractorResults :
        /\ journey_state.questions_asked[i].question_id = response.question_id
        /\ analysis = analyze_response(response, journey_state.questions_asked[i], extracted)

\* C17: in every stored journey, under any interleaving, there are as many
\* extractions as answers and the i-th extraction is built from the i-th
\* answer.
C17_ExtractionsAligned ==
    \A j \in DOMAIN store :
        /\ Len(store[j].analyses) = Len(store[j].responses)
        /\ \A i \in 1..Len(store[j].responses) :
             i <= Len(store[j].analyses)
                => BuiltFrom(store[j].analyses[i], store[j].responses[i], store[j])

\* C17 witness: a journey on which calls have overlapped holds two answers,
\* one skipped and one not.
C17_Witness ==
    \E j \in DOMAIN store :
        /\ hist[j].overlaps > 0
        /\ Len(store[j].responses) = 2
        /\ store[j].responses[1].skipped # store[j].responses[2].skipped

(***************************************************************************)
(* Properties of the question generator's theme memory (ThemeSpec)         *)
(***************************************************************************)
\* C18: the request sent to the question-generation collaborator for a
\* journey is not influenced by any other journey: its list of themes to
\* avoid is one that the themes generated for that journey alone give.
C18_NoCrossJourneyThemes ==
    (probe.fn = "generate_question" /\ probe.request # <<>>)
        => probe.request[1].avoid_themes \in avoid_themes(probe.request[1].own_themes)

(***************************************************************************)
(* Properties of the confidence scorer (ScoreSpec)                         *)
(***************************************************************************)
Scored == probe.fn = "calculate_confidence" /\ probe.out # <<>>

\* C19: for every history with signal values in range and any number of
\* skipped answers, the six dimension confidences, the motivator confidence,
\* the interest confidence and the overall confidence all lie in [0, 100].
C19_ConfidenceInRange ==
    Scored
        => /\ \A d \in 1..6 : probe.out[1].riasec_confidence[d] \in 0..Milli(100)
           /\ probe.out[1].motivator_confidence \in 0..Milli(100)
           /\ probe.out[1].interest_confidence \in 0..Milli(100)
           /\ probe.out[1].overall_confidence \in 0..Milli(100)

\* C19 witness: a history with answered and skipped turns whose skip
\* adjustment outweighs a positive base confidence: overall is 0.
C19_Witness ==
    /\ Scored
    /\ \E i \in 1..Len(probe.responses) : probe.responses[i].skipped
    /\ probe.out[1].motivator_confidence > 0
    /\ probe.out[1].overall_confidence = 0

\* The positions of the extractions that carry a signal for the dimension.
Supporting(dimension) ==
    {i \in 1..Len(probe.analyses) : dimension \in DOMAIN probe.analyses[i].riasec_signals}

\* C20 as stated: a dimension supported by a single signal, of confidence
\* 90, has dimension confidence 30.
C20_Stated ==
    Scored
        => \A d \in 1..6 :
             (\E i \in Supporting(dimensions[d]) :
                 /\ Supporting(dimensions[d]) = {i}
                 /\ probe.analyses[i].riasec_signals[dimensions[d]].confidence = 90)
                => probe.out[1].riasec_confidence[d] = Milli(30)

\* C20 amended: for a dimension supported by n < 3 signals the dimension
\* confidence is min(weighted average + 5n, 100) * n / 3: a single signal of
\* confidence c gives min(c + 5, 100) / 3, and two signals at positions i < k
\* of a history of length m, with weights 2m + i - 1 and 2m + k - 1, give
\* min(average + 10, 100) * 2 / 3.
C20_ScaledAfterBonus ==
    Scored
        => \A d \in 1..6 :
             LET c(i) == probe.analyses[i].riasec_signals[dimensions[d]].confidence
                 m == Len(probe.analyses)
             IN /\ \A i \in Supporting(dimensions[d]) :
                     Supporting(dimensions[d]) = {i}
                        => probe.out[1].riasec_confidence[d]
                             = Div(Min(Milli(c(i) + 5), Milli(100)), 3)
                /\ \A i, k \in Supporting(dimensions[d]) :
                     (i < k /\ Supporting(dimensions[d]) = {i, k})
                        => probe.out[1].riasec_confidence[d]
                             = Div(2 * Min(Div(Milli(c(i) * (2 * m + i - 1)
                                                       + c(k) * (2 * m + k - 1)),
                                                 4 * m + i + k - 2) + Milli(10),
                                           Milli(100)), 3)

\* C20 witness: the only signal for "realistic" has confidence 90 and the
\* dimension confidence is 31.667.
C20_Witness ==
    /\ Scored
    /\ \E i \in Supporting("realistic") :
         /\ Supporting("realistic") = {i}
         /\ probe.analyses[i].riasec_signals["realistic"].confidence = 90
    /\ probe.out[1].riasec_confidence[1] = 31667

(***************************************************************************)
(* Properties of the aggregator (AggregateSpec)                            *)
(***************************************************************************)
Aggregated == probe.fn = "update_current_profile" /\ probe.runs > 0

\* The position in xs of the entry to keep for group g: the greatest key of
\* the group, the earliest position among equal keys.
BestOf(g, keys, groups) ==
    CHOOSE i \in 1..Len(groups) :
        /\ groups[i] = g
        /\ \A k \in 1..Len(groups) :
              groups[k] = g => keys[k] < keys[i] \/ (keys[k] = keys[i] /\ i <= k)

\* top is the reduction of xs: at most cap entries, one per group, each the
\* best of its group, in non-increasing key order, and no group left out has
\* a greater key than a group kept.
IsTopReduction(top, topkeys, topgroups, xs, keys, groups, cap) ==
    LET all == {groups[i] : i \in 1..Len(groups)}
        kept == {topgroups[p] : p \in 1..Len(top)}
    IN /\ Len(top) = Min(cap, Cardinality(all))
       /\ \A p, q \in 1..Len(top) : p # q => topgroups[p] # topgroups[q]
       /\ \A p \in 1..Len(top) :
             topgroups[p] \in all /\ top[p] = xs[BestOf(topgroups[p], keys, groups)]
       /\ \A p \in 1..Len(top) - 1 : topkeys[p] >= topkeys[p + 1]
       /\ \A g \in all \ kept : keys[BestOf(g, keys, groups)] <= topkeys[Len(top)]

C22_AggregationDeterministic ==
    Aggregated
        => /\ probe.journey_state.identified_motivators = probe.first[1].identified_motivators
           /\ probe.journey_state.identified_interests = probe.first[1].identified_interests
           /\ LET fresh == update_current_profile(
                               [NewJourney EXCEPT !.analyses = probe.journey_state.analyses])
              IN /\ probe.journey_state.identified_motivators = fresh.identified_motivators
                 /\ probe.journey_state.identified_interests = fresh.identified_interests

\* C22 witness: the aggregator has run twice over a non-empty history of a
\* journey that held other lists before.
C22_Witness ==
    /\ probe.fn = "update_current_profile"
    /\ probe.runs = 2
    /\ probe.journey_state.analyses # <<>>
    /\ probe.journey_state.identified_motivators # <<>>
    /\ \A p \in 1..Len(probe.journey_state.identified_motivators) :
         probe.journey_state.identified_motivators[p].type # "stale"

(***************************************************************************)
(* Properties of the derived code (RiasecSpec)                             *)
(***************************************************************************)
Derived == probe.fn = "calculate_final_riasec" /\ probe.out # <<>>

\* The position of a letter in the canonical order R, I, A, S, E, C.
Canonical(letter) == CHOOSE d \in 1..6 : <<"R", "I", "A", "S", "E", "C">>[d] = letter

\* Dimension a ranks before dimension b: a greater score, or the same score
\* and an earlier canonical position.
RanksBefore(a, b, scores) ==
    scores[a] > scores[b] \/ (scores[a] = scores[b] /\ a < b)

\* C23: the derived code has exactly three distinct letters out of R, I, A,
\* S, E, C: those of the three highest final scores in descending order,
\* equal scores in canonical order; when one dimension alone holds the
\* maximum score the code begins with its letter.
C23_CodeTopThree ==
    Derived
        => LET code == probe.out[1].riasec_code
               scores == probe.out[1].riasec_score
               letters == {code[k] : k \in 1..Len(code)}
           IN /\ Len(code) = 3
              /\ letters \subseteq {"R", "I", "A", "S", "E", "C"}
              /\ Cardinality(letters) = 3
              /\ RanksBefore(Canonical(code[1]), Canonical(code[2]), scores)
              /\ RanksBefore(Canonical(code[2]), Canonical(code[3]), scores)
              /\ \A d \in 1..6 :
                    d \notin {Canonical(code[k]) : k \in 1..3}
                       => RanksBefore(Canonical(code[3]), d, scores)
              /\ \A d \in 1..6 :
                    (\A e \in 1..6 : e # d => scores[e] < scores[d])
                       => code[1] = <<"R", "I", "A", "S", "E", "C">>[d]

\* C23 witness: investigative alone holds the maximum score, two of the
\* other dimensions tie, and the code begins with I.
C23_Witness ==
    /\ Derived
    /\ \A e \in {1, 3, 4, 5, 6} : probe.out[1].riasec_score[e] < probe.out[1].riasec_score[2]
    /\ probe.out[1].riasec_score[1] > 0
    /\ probe.out[1].riasec_score[3] = probe.out[1].riasec_score[4]
    /\ probe.out[1].riasec_code = <<"I", "R", "A">>

(***************************************************************************)
(* Properties of the question budget (SeqSpec, LateSpec)                   *)
(***************************************************************************)
\* The respond call has made its decision on the journey it updated.
HasDecided(c) == calls[c].op = "respond" /\ calls[c].decision # None

\* C24: respond never decides Continue or Clarify when the journey's
\* question count is 18 or more: the decision is then Complete or
\* SavePartial.
C24_BudgetEnforced ==
    \A c \in Calls :
        (HasDecided(c) /\ calls[c].journey_state[1].current_question_number >= 18)
            => calls[c].decision \in {COMPLETE, SAVE_PARTIAL}

\* C24 witness: a respond at question count 18 with overall confidence below
\* 75 has returned Complete.
C24_Witness ==
    \E c \in Calls :
        /\ Succeeded(c, "respond")
        /\ calls[c].journey_state[1].current_question_number = 18
        /\ calls[c].journey_state[1].current_confidence[1].overall_confidence < Milli(75)
        /\ calls[c].decision = COMPLETE

\* C25: in every stored journey, and in every journey a call holds,
\* clarifications_used = max(0, question count - 15); so no decision is made
\* at question count 15 with the clarifications exhausted, and none by the
\* final fallback (a question count that is neither below, at nor above 15).
C25_ClarificationsFollowCount ==
    /\ \A j \in DOMAIN store :
         /\ store[j].clarifications_used = Max(0, store[j].current_question_number - 15)
         /\ store[j].current_question_number = Len(store[j].questions_asked)
    /\ \A c \in Calls :
         HasDecided(c)
            => LET journey_state == calls[c].journey_state[1]
               IN /\ journey_state.clarifications_used
                       = Max(0, journey_state.current_question_number - 15)
                  /\ ~(/\ journey_state.current_question_number = 15
                        /\ journey_state.clarifications_used >= 3)
                  /\ \/ journey_state.current_question_number < 15
                     \/ journey_state.current_question_number = 15
                     \/ journey_state.current_question_number > 15

\* C25 witness: on a journey on which calls have overlapped, a respond at
\* question count 17 with two clarifications used has decided Clarify.
C25_Witness ==
    \E c \in Calls :
        /\ HasDecided(c)
        /\ hist[calls[c].jid].overlaps > 0
        /\ calls[c].journey_state[1].current_question_number = 17
        /\ calls[c].journey_state[1].clarifications_used = 2
        /\ calls[c].decision = CLARIFY

\* C26: the readiness flag of the snapshot and the decision of the same
\* respond agree: Complete implies ready, and ready implies Complete or
\* SavePartial.
C26_ReadinessAgrees ==
    \A c \in Calls :
        HasDecided(c)
            => LET ready == calls[c].journey_state[1].current_confidence[1].ready_to_complete
               IN /\ calls[c].decision = COMPLETE => ready
                  /\ ready => calls[c].decision \in {COMPLETE, SAVE_PARTIAL}

\* C26 witness: a respond at question count 15 with overall confidence of 75
\* or more has decided Complete and the snapshot is ready.
C26_Witness ==
    \E c \in Calls :
        /\ HasDecided(c)
        /\ calls[c].journey_state[1].current_question_number = 15
        /\ calls[c].journey_state[1].current_confidence[1].overall_confidence >= Milli(75)
        /\ calls[c].decision = COMPLETE
        /\ calls[c].journey_state[1].current_confidence[1].ready_to_complete

(***************************************************************************)
(* Properties under interleaving (Spec), continued                         *)
(***************************************************************************)
\* C27: terminal status is permanent: no step takes a journey whose stored
\* status is Completed or Abandoned to a stored status of InProgress.
C27_TerminalPermanent ==
    [][\A j \in DOMAIN store :
          store[j].status \in {COMPLETED, ABANDONED} => store'[j].status # IN_PROGRESS]_vars

\* C28: a question returned by a successful nextQuestion stays answerable:
\* when the call returns, the stored journey has a question with the
\* returned id, so that a respond with that id is not NotFound.
C28_ReturnedQuestionStored ==
    \A c \in Calls :
        Succeeded(c, "next")
            => find_question(store[calls[c].jid], calls[c].result[1].question_id) # <<>>

(***************************************************************************)
(* Properties of the operations taken one at a time (SeqSpec), continued   *)
(***************************************************************************)
\* C30: every change of the stored status is announced: a call that has
\* returned and changed the status to Abandoned has published
\* journey.abandoned, and one that changed it to Completed has published
\* journey.completed.
C30_StatusChangeAnnounced ==
    \A c \in Calls :
        (Succeeded(c, calls[c].op) /\ calls[c].before # <<>>)
            => LET was == calls[c].before[1].status
                   now == store[calls[c].jid].status
                   events == {calls[c].published[k] : k \in 1..Len(calls[c].published)}
               IN /\ (was # ABANDONED /\ now = ABANDONED) => "journey.abandoned" \in events
                  /\ (was # COMPLETED /\ now = COMPLETED) => "journey.completed" \in events

(***************************************************************************)
(* Properties of the service's routes (RouteSpec)                          *)
(***************************************************************************)
\* The snapshot is the estimator's value for the stored history (the
\* question count being that of the last respond), absent before any answer.
SnapshotComputed(journey_state) ==
    IF journey_state.responses = <<>>
    THEN journey_state.current_confidence = <<>>
    ELSE \E n \in 0..journey_state.current_question_number :
            journey_state.current_confidence =
                <<calculate_confidence(journey_state.analyses, journey_state.responses, n)>>

\* C29: the stored confidence snapshot is always the one the estimator
\* computed from the stored history (absent before the first respond), and
\* the confidence-at-completion of a profile returned by complete is the
\* estimator's overall confidence for the history it was built from.
C29_SnapshotIsComputed ==
    /\ \A j \in DOMAIN store : SnapshotComputed(store[j])
    /\ \A c \in Calls :
          Succeeded(c, "complete")
              => LET journey_state == calls[c].journey_state[1]
                 IN calls[c].result[1].confidence_at_completion =
                        IF journey_state.responses = <<>> THEN 0
                        ELSE calculate_confidence(journey_state.analyses,
                                                  journey_state.responses,
                                                  0).overall_confidence

(***************************************************************************)
(* Properties of journeys answered by option selection (SeqSpec)           *)
(***************************************************************************)
\* Every answer of the journey is a skip or an option letter on a question
\* that has options.
StructuredOnly(journey_state) ==
    \A k \in 1..Len(journey_state.responses) :
        LET user_response == journey_state.responses[k]
            question == find_question(journey_state, user_response.question_id)
        IN \/ user_response.skipped
           \/ /\ is_mcq(user_response)
              /\ question # <<>>
              /\ Len(question[1].options) > 0

\* C31: in a journey whose every answer is a skip or an option selection,
\* after every respond the six dimension confidences are 0 and the overall
\* confidence is at most 50, and the decision is not Complete while the
\* question count is below 18.
C31_OptionJourneysStayLow ==
    \A c \in Calls :
        (HasDecided(c) /\ StructuredOnly(calls[c].journey_state[1]))
            => LET journey_state == calls[c].journey_state[1]
                   confidence_score == journey_state.current_confidence[1]
               IN /\ \A d \in 1..6 : confidence_score.riasec_confidence[d] = 0
                  /\ confidence_score.overall_confidence <= Milli(50)
                  /\ journey_state.current_question_number < 18
                        => calls[c].decision # COMPLETE

\* C31 witness: a respond has decided on a journey of two answers, one of
\* them an option selection that gave motivators, at a question count of 12
\* or more.
C31_Witness ==
    \E c \in Calls :
        /\ HasDecided(c)
        /\ StructuredOnly(calls[c].journey_state[1])
        /\ Len(calls[c].journey_state[1].responses) = 2
        /\ \E k \in 1..2 : ~calls[c].journey_state[1].responses[k].skipped
        /\ calls[c].journey_state[1].current_confidence[1].motivator_confidence > 0
        /\ calls[c].journey_state[1].current_question_number >= 12

(***************************************************************************)
(* Properties of the decision's focus (DecisionSpec)                       *)
(***************************************************************************)
\* C32: whenever the decision is Continue, next_focus is the topic label
\* mapped from the leading gap of the confidence snapshot, or the generic
\* exploration label when the snapshot has no gaps.
C32_ContinueFocus ==
    (Decided /\ probe.out[1].decision = CONTINUE)
        => probe.out[1].next_focus
               = identify_next_focus(probe.confidence_score.gaps_remaining)

(***************************************************************************)
(* Properties of the extraction path (AnalyzeSpec)                         *)
(***************************************************************************)
Analyzed == probe.fn = "analyze_response" /\ (probe.out # <<>> \/ probe.error # None)

\* The answer names an option that the question has.
SelectsOption(response, question) ==
    /\ strip_upper(response.response_text) \in {"A", "B", "C", "D"}
    /\ option_index(strip_upper(response.response_text)) < Len(question.options)

\* C33: for a non-skipped answer the extraction is built by option lookup,
\* with no collaborator call, exactly when the answer selects an option the
\* question has; in every other case the free-text extractor is called.
C33_LookupOrExtractor ==
    (Analyzed /\ ~probe.response.skipped)
        => IF SelectsOption(probe.response, probe.question)
           THEN /\ probe.collaborators = <<>>
                /\ probe.out = <<analyze_mcq_with_metadata(probe.response, probe.question)>>
           ELSE probe.collaborators = <<"response_analyzer">>

(***************************************************************************)
(* Properties of the final dimension scores (RiasecSpec)                   *)
(***************************************************************************)
\* C34: final dimension scoring is total: for every extraction history with
\* in-range values the call does not fail and gives each of the six
\* dimensions a score between 0 and 100, also when every signal of a
\* dimension has confidence 0.
C34_FinalScoringTotal ==
    (probe.fn = "calculate_final_riasec" /\ (probe.out # <<>> \/ probe.raised))
        => /\ ~probe.raised
           /\ \A d \in 1..6 : /\ probe.out[1].riasec_score[d] >= 0
                               /\ probe.out[1].riasec_score[d] <= Milli(100)

(***************************************************************************)
(* Properties of the tiers and clusters of the profile (OrganizeSpec)      *)
(***************************************************************************)
Tiered == probe.fn = "organize_motivators" /\ probe.out # <<>>

\* The tiers cut the sorted types by count: top_count, then moderate_count,
\* then the rest.
TiersByCount(sorted, out) ==
    LET names == [q \in 1..Len(sorted) |-> sorted[q].key]
        total == Len(names)
        top_count == Max(3, total \div 3)
        moderate_count == Max(6, (2 * total) \div 3)
        t == Min(top_count, total)
        m == Min(moderate_count, total - t)
    IN /\ out.top = SubSeq(names, 1, t)
       /\ out.moderate = SubSeq(names, t + 1, t + m)
       /\ out.low = SubSeq(names, t + m + 1, total)

\* C35: the tiers partition the observed motivator types by rank of average
\* strength * confidence / 100, descending: the top tier holds the first
\* top_count = max(3, total/3) types, the moderate tier the next
\* moderate_count = max(6, 2 * total/3) types (all that remain when fewer are
\* left), the low tier the rest.
C35_TiersByCount ==
    Tiered => TiersByCount(sorted_motivators(probe.analyses), probe.out[1])

Clustered == probe.fn = "cluster_interests" /\ probe.out # <<>>

\* The entry of an interest among the sorted ones.
EntryOf(sorted, key) == sorted[CHOOSE q \in 1..Len(sorted) : sorted[q].key = key]

\* a's average enthusiasm is at least b's.
AtLeast(a, b) == a.sum * b.count >= b.sum * a.count

\* The primaries are the first P visited, P the greater of the number
\* scoring 8 or more and min(3, all); the secondaries the next S, S the
\* greater of the number of the others scoring 6 or more and min(3, the
\* others); the lists are cut to 5, 5 and 3 entries, no interest is in two
\* lists, and the scores do not rise from primary to secondary to emerging.
ClustersByRule(sorted, primary, secondary, emerging) ==
    LET n == Len(sorted)
        keys == [q \in 1..n |-> sorted[q].key]
        P == Max(Cardinality({q \in 1..n : sorted[q].sum >= 8 * sorted[q].count}),
                 Min(3, n))
        S == Max(Cardinality({q \in (P + 1)..n : sorted[q].sum >= 6 * sorted[q].count}),
                 Min(3, n - P))
        all == primary \o secondary \o emerging
    IN /\ primary = Prefix(SubSeq(keys, 1, P), 5)
       /\ secondary = Prefix(SubSeq(keys, P + 1, P + S), 5)
       /\ emerging = Prefix(SubSeq(keys, P + S + 1, n), 3)
       /\ Len(primary) <= 5 /\ Len(secondary) <= 5 /\ Len(emerging) <= 3
       /\ \A a, b \in 1..Len(all) : a # b => all[a] # all[b]
       /\ \A a \in 1..Len(primary), b \in 1..Len(secondary) :
             AtLeast(EntryOf(sorted, primary[a]), EntryOf(sorted, secondary[b]))
       /\ \A a \in 1..Len(secondary), b \in 1..Len(emerging) :
             AtLeast(EntryOf(sorted, secondary[a]), EntryOf(sorted, emerging[b]))

\* C36: the interests, keyed by (category, specific) and visited by average
\* enthusiasm, descending, are primary if the score is 8 or more or fewer
\* than 3 primaries are assigned so far, else secondary if the score is 6 or
\* more or fewer than 3 secondaries are assigned so far, else emerging; the
\* lists hold at most 5, 5 and 3 entries, no interest is in two lists, and
\* every primary scores at least as high as every secondary, which scores
\* at least as high as every emerging.
C36_ClustersByRule ==
    Clustered
        => ClustersByRule(sorted_interests(probe.analyses), probe.out[1].primary,
                          probe.out[1].secondary, probe.out[1].emerging)

\* C36 witness: the eight interests of a history in which none scores 6 or
\* more are clustered: the first three are primary, the next three
\* secondary, the last two emerging.
C36_Witness ==
    /\ Clustered
    /\ probe.analyses = <<FaintAnalysis>>
    /\ Len(probe.out[1].primary) = 3
    /\ Len(probe.out[1].secondary) = 3
    /\ Len(probe.out[1].emerging) = 2

\* No interest left out of the lists scores above one that is in them.
DropsOnlyWeakest(sorted, all) ==
    LET kept == {all[a] : a \in 1..Len(all)}
    IN \A q \in 1..Len(sorted) :
         sorted[q].key \notin kept
             => \A k \in kept : AtLeast(EntryOf(sorted, k), sorted[q])

\* C37: clustering drops only the weakest interests: when an interest is in
\* none of the three clusters, no interest of strictly lower average
\* enthusiasm is in a cluster.
C37_DropsOnlyWeakest ==
    Clustered
        => DropsOnlyWeakest(sorted_interests(probe.analyses),
                            probe.out[1].primary \o probe.out[1].secondary
                                \o probe.out[1].emerging)

(***************************************************************************)
(* Properties of the order of the events (SeqSpec)                         *)
(***************************************************************************)
\* The place of an event among those a call has published, 0 when absent.
PlaceOf(event, published) ==
    IF \E k \in 1..Len(published) : published[k] = event
    THEN CHOOSE k \in 1..Len(published) : published[k] = event
    ELSE 0

\* C38: the events of a journey are ordered: journey.started is the first
\* event its start publishes; when a call has published question.generated
\* the stored journey is the state the call saved, whose last question is
\* the generated one; and a respond that ends in Complete publishes
\* journey.completed before its response.processed.
C38_EventsOrdered ==
    \A c \in Calls :
        LET published == calls[c].published IN
        /\ (calls[c].op = "start" /\ published # <<>>) => published[1] = "journey.started"
        /\ calls[c].op # "start" => PlaceOf("journey.started", published) = 0
        /\ PlaceOf("question.generated", published) > 0
              => /\ Stored(calls[c].jid)
                 /\ store[calls[c].jid] = calls[c].journey_state[1]
                 /\ store[calls[c].jid].questions_asked # <<>>
        /\ (calls[c].op = "respond" /\ calls[c].decision = COMPLETE
              /\ PlaceOf("response.processed", published) > 0)
              => /\ PlaceOf("journey.completed", published) > 0
                 /\ PlaceOf("journey.completed", published)
                       < PlaceOf("response.processed", published)

\* C38 witness: a respond that decided Complete has returned, having
\* published journey.completed and then response.processed.
C38_Witness ==
    \E c \in Calls :
        /\ Succeeded(c, "respond")
        /\ calls[c].decision = COMPLETE
        /\ calls[c].published = <<"journey.completed", "response.processed">>

(***************************************************************************)
(* Properties of the gateway's abandon route (GatewaySpec)                 *)
(***************************************************************************)
\* C39: once an abandon request for a journey that existed when it arrived
\* has been answered, the stored status of that journey is Abandoned.
C39_AbandonReachable ==
    \A c \in Calls :
        (calls[c].op = "abandon" /\ calls[c].pc = "done" /\ calls[c].before # <<>>)
            => /\ Stored(calls[c].jid)
               /\ store[calls[c].jid].status = ABANDONED

====
